---- MODULE Spec2Model ----
(***************************************************************************)
(* A model of the event-loop / window-state synchronisation engine of      *)
(* smithay-winit: the windows registry with its pending-action sets, the   *)
(* protocol callback handlers that fill them, and WlEventLoop::run, which  *)
(* drains them once per tick into the application's callbacks.             *)
(*                                                                         *)
(* The loop thread's position is `pc`.  While pc = "dispatch" the thread   *)
(* is inside EventLoop::dispatch, which invokes the channel callbacks and  *)
(* the protocol handlers; afterwards the tick is drained phase by phase    *)
(* (one action per loop of run()), so that a stop() called by another      *)
(* thread interleaves with it.  What other threads send on a channel is    *)
(* seen by the loop thread inside dispatch only, so the sends are taken    *)
(* while the loop thread is there.                                         *)
(* Variables whose name starts with h_ are history variables: they record  *)
(* what the application has observed and are never read by the program.    *)
(***************************************************************************)
EXTENDS Integers, Sequences, FiniteSets, TLC

\* ---------------------------------------------------------------- bounds
\* window-creation requests accepted over a run
MaxWindows == 2
\* lock surfaces created over a run
MaxLocks == 1
\* user events submitted through send_event
MaxUserEvents == 2
\* protocol notifications, accessibility requests and application redraw
\* requests over a run
MaxFuel == 3
\* thickness of the border a decoration frame subtracts from the height
MaxBorder == 1
\* seats of the compositor
MaxSeats == 1
\* pointer and touch devices obtained over a run
MaxDevices == 2

\* internal events queued in one dispatch by the touch handlers
MaxQueued == 3

\* ------------------------------------------------------------- constants
\* Option::None of a size or an identity; Some(x) of an identity is <<x>>.  An
\* Option<NonZeroU32> is the number itself, 0 standing for None.
None == <<>>
DEFAULT_SCALE_FACTOR == 1
DEFAULT_WINDOW_SIZE == <<256, 256>>
MIN_WINDOW_SIZE == <<2, 1>>

\* WindowState bits of csd_frame that the handlers look at
StateBits == {"MAXIMIZED", "FULLSCREEN", "TILED", "RESIZING", "ACTIVATED", "SUSPENDED"}

\* The identity of a surface that is neither a window nor a lock surface
\* (a cursor surface, ObjectId::null()).
NullId == 0

\* ---------------------------------------------------------------- helpers
Range(s) == {s[i] : i \in 1..Len(s)}

InSeq(x, s) == \E i \in 1..Len(s) : s[i] = x

Count(x, s) == Cardinality({i \in 1..Len(s) : s[i] = x})

Min(a, b) == IF a <= b THEN a ELSE b

\* a variant of IndexSet::insert that keeps a value already present a second
\* time (a Vec::push)
IndexSetInsert_no_dedup(s, x) == Append(s, x)

\* IndexSet::insert: insertion order is kept, a value already present is
\* not inserted again.
IndexSetInsert(s, x) == IF InSeq(x, s) THEN s ELSE Append(s, x)

\* the position of the first occurrence of x in s, 0 when absent
IndexOf(x, s) == IF InSeq(x, s) THEN CHOOSE i \in 1..Len(s) : s[i] = x /\ \A j \in 1..(i - 1) : s[j] # x ELSE 0

\* IndexMap::swap_remove of the entry at position i: the last entry takes its
\* place
SwapRemove(s, i) ==
    IF i = Len(s) THEN SubSeq(s, 1, Len(s) - 1)
    ELSE SubSeq([s EXCEPT ![i] = s[Len(s)]], 1, Len(s) - 1)

\* --------------------------------------------------------------- variables
VARIABLES
    pc,                 \* position of the loop thread
    running,            \* WlEventLoop::running
    LOOP_RUNNING,       \* static LOOP_RUNNING
    SCREENLOCK,         \* static SCREENLOCK
    locker_chan,        \* LOCKER_CREATION_EVENT channel, number of messages in flight
    session_lock,       \* WaylandState::session_lock: "None", or Some(lock) "Requested" or "Locked"
    windows,            \* WindowsRegistry::windows: id -> WaylandWindow
    screenlocks,        \* WindowsRegistry::screenlocks: id -> size or None
    new_windows,        \* WindowsRegistry::new_windows
    new_screenlock,     \* WindowsRegistry::new_screenlock: <<id, size or None>>
    rescale_request,    \* the four pending IndexSets of the registry
    resize_request,
    redraw_request,
    close_request,
    l_new_windows,      \* the locals of run() filled by mem::take
    l_locked,
    l_rescale,
    l_resize,
    l_redraw,
    l_close,
    create_chan,        \* WINDOWS_CREATION_EVENT channel, messages in flight
    user_chan,          \* event_sender channel of user events
    user_events,        \* WlEventLoop::user_events
    event_chan,         \* WaylandState::event_sender channel
    events,             \* WaylandState::events
    accesskit_chan,     \* WaylandState::accesskit_event_sender channel
    accesskit_events,   \* WaylandState::accesskit_events
    keyboard_focus,     \* SeatState::keyboard_focus
    keyboard,           \* SeatState::keyboard.is_some()
    by_seat,            \* PointerRegistry::by_seat: seat -> <<device, kind>>
    by_pointer,         \* PointerRegistry::by_pointer: device -> <<seat, kind>>
    next_dev,           \* the number of devices obtained so far
    touch_state,        \* the touch contacts in progress: contact -> TouchState
    subcompositor,      \* WaylandState::subcompositor_state.is_some()
    csd_fails,          \* WaylandState::csd_fails
    next_id,            \* the identity the next created surface receives
    next_lock,          \* the number of lock surfaces created so far
    fuel,               \* environment inputs still allowed by MaxFuel
    woken,              \* the current dispatch has processed an event
    h_tick,             \* callbacks invoked (and an abort raised) in the current iteration
    h_closed,           \* every close_handle of the run, in order
    h_created,          \* every create_window callback of the run, in order
    h_requested,        \* number of requests request_new_window has accepted
    h_submitted,        \* every user event accepted by send_event, in order
    h_delivered,        \* every user_events_handle of the run, in order
    h_stop_at,          \* pc at the first call of stop()
    h_got,              \* notifications received in the current dispatch
    h_first,            \* the configure a new window received, alone, in the current dispatch
    h_attempts,         \* outcome of every construction of a decoration frame, in order
    h_last              \* per window: its size when its state last had no maximized, fullscreen or tiled bit

registry == <<windows, screenlocks, new_windows, new_screenlock>>

pending == <<rescale_request, resize_request, redraw_request, close_request>>

locals == <<l_new_windows, l_locked, l_rescale, l_resize, l_redraw, l_close>>

channels == <<create_chan, user_chan, event_chan, accesskit_chan>>

queues == <<user_events, events, accesskit_events>>

decor == <<subcompositor, csd_fails>>

seats == <<keyboard, by_seat, by_pointer, next_dev, touch_state>>

history == <<h_tick, h_closed, h_created, h_requested, h_submitted, h_delivered, h_stop_at, h_got,
            h_first, h_attempts, h_last>>

locking == <<SCREENLOCK, locker_chan, session_lock>>

vars == <<pc, running, LOOP_RUNNING, locking, registry, pending, locals, channels, queues,
          keyboard_focus, seats, decor, next_id, next_lock, fuel, woken, history>>

\* ------------------------------------------------------------ window state
\* Ord::max of two LogicalSize values: the derived order is lexicographic.
SizeMax(a, b) == IF a[1] > b[1] \/ (a[1] = b[1] /\ a[2] >= b[2]) THEN a ELSE b

\* logical_to_physical_rounded with an integral scale factor
logical_to_physical_rounded(size, scale_factor) == <<size[1] * scale_factor, size[2] * scale_factor>>

\* DecorationsFrame::subtract_borders of the decoration frame: a hidden frame
\* has no borders, a visible one takes `b` off the height; a dimension that
\* would become zero is reported as None (0).
subtract_borders(hidden, width, height, b) ==
    IF hidden THEN <<width, height>>
    ELSE <<width, IF height > b THEN height - b ELSE 0>>

\* DecorationsFrame::add_borders
add_borders(hidden, width, height, b) == IF hidden THEN <<width, height>> ELSE <<width, height + b>>

\* WaylandWindow::set_min_surface_size: the stored minimum
min_surface_size_of(size, has_frame, hidden, b) ==
    LET req == IF size = None THEN MIN_WINDOW_SIZE ELSE size
        floored == <<IF req[1] >= MIN_WINDOW_SIZE[1] THEN req[1] ELSE MIN_WINDOW_SIZE[1],
                     IF req[2] >= MIN_WINDOW_SIZE[2] THEN req[2] ELSE MIN_WINDOW_SIZE[2]>>
    IN  IF has_frame THEN add_borders(hidden, floored[1], floored[2], b) ELSE floored

\* WaylandWindow::new
WaylandWindow_new(attr) ==
    LET min == min_surface_size_of(attr.min_surface_size, FALSE, FALSE, 0)
    IN  [ state            |-> {},
          window_frame     |-> FALSE,
          size             |-> SizeMax(IF attr.surface_size = None THEN DEFAULT_WINDOW_SIZE
                                       ELSE attr.surface_size, min),
          stateless_size   |-> DEFAULT_WINDOW_SIZE,
          scale_factor     |-> DEFAULT_SCALE_FACTOR,
          decorate         |-> TRUE,
          stateless        |-> FALSE,
          min_surface_size |-> min ]

\* the window with its WindowCore, whose id is the identity of the surface
WithCore(id, w) == [x \in DOMAIN w \cup {"core"} |-> IF x = "core" THEN id ELSE w[x]]

\* WindowAttributes::default()
DefaultAttributes == [surface_size |-> None, min_surface_size |-> None]

\* is_stateless(configure)
is_stateless(cfg) == cfg.state \cap {"MAXIMIZED", "FULLSCREEN", "TILED"} = {}

\* WaylandWindow::surface_size_bounds
surface_size_bounds(has_frame, hidden, cfg, b) ==
    LET cb == IF cfg.suggested_bounds = None THEN <<0, 0>> ELSE cfg.suggested_bounds
        sb == subtract_borders(hidden, IF cb[1] = 0 THEN 1 ELSE cb[1],
                                       IF cb[2] = 0 THEN 1 ELSE cb[2], b)
    IN  IF has_frame
        THEN <<IF cb[1] = 0 THEN 0 ELSE sb[1], IF cb[2] = 0 THEN 0 ELSE sb[2]>>
        ELSE cb

\* the decoration part of WindowHandler::configure: is construction of the
\* decoration frame attempted
frame_attempted(w, cfg) ==
    cfg.decoration_mode = "Client" /\ ~w.window_frame /\ subcompositor /\ csd_fails

\* a variant of frame_after that keeps an existing frame on a Server configure
frame_after_keeps_frame(w, cfg, frame_ok) ==
    IF frame_attempted(w, cfg) THEN frame_ok ELSE w.window_frame

\* ... and does the window hold a frame afterwards (frame_ok: AdwaitaFrame::new
\* returned Ok)
frame_after(w, cfg, frame_ok) ==
    IF frame_attempted(w, cfg) THEN frame_ok
    ELSE IF cfg.decoration_mode = "Server" THEN FALSE
    ELSE w.window_frame

\* a variant of configure_new_size that prefers the remembered stateless size
\* to the suggested one whenever the configure is stateless
configure_new_size_stateless_first(w, cfg, has_frame, b) ==
    IF is_stateless(cfg) THEN w.stateless_size ELSE <<cfg.new_size[1], cfg.new_size[2]>>

\* the size WindowHandler::configure computes before it compares it with the
\* current size, bounds applied
configure_new_size(w, cfg, has_frame, b) ==
    LET hidden == ~w.decorate
        stateless == is_stateless(cfg)
        ns == cfg.new_size
        both == ns[1] # 0 /\ ns[2] # 0
        sub == subtract_borders(hidden, ns[1], ns[2], b)
        cand == IF has_frame
                THEN IF both THEN <<IF sub[1] = 0 THEN 1 ELSE sub[1],
                                    IF sub[2] = 0 THEN 1 ELSE sub[2]>>
                     ELSE IF ns[1] = 0 /\ ns[2] = 0 /\ stateless THEN w.stateless_size
                     ELSE w.size
                ELSE IF both THEN <<ns[1], ns[2]>>
                     ELSE IF stateless THEN w.stateless_size
                     ELSE w.size
        constrain == ~both
        bounds == surface_size_bounds(has_frame, hidden, cfg, b)
    IN  IF constrain
        THEN <<IF bounds[1] = 0 THEN cand[1] ELSE Min(cand[1], bounds[1]),
               IF bounds[2] = 0 THEN cand[2] ELSE Min(cand[2], bounds[2])>>
        ELSE cand

\* a variant that leaves out the difference(ACTIVATED | SUSPENDED)
state_change_requires_resize_any_bit(old_state, new_state) ==
    ((old_state \ new_state) \cup (new_state \ old_state)) # {}

\* WindowState::symmetric_difference followed by
\* difference(ACTIVATED | SUSPENDED) and is_empty, negated
state_change_requires_resize(old_state, new_state) ==
    (((old_state \ new_state) \cup (new_state \ old_state)) \ {"ACTIVATED", "SUSPENDED"}) # {}

\* a variant of configure_resize that looks at the size only
configure_resize_size_only(w, cfg, new_size) == new_size # w.size

\* `resize` of WindowHandler::configure for a present window
configure_resize(w, cfg, new_size) ==
    state_change_requires_resize(w.state, cfg.state) \/ new_size # w.size

\* WaylandWindow::resize: the stored sizes
window_resize(w, surface_size) ==
    [w EXCEPT !.size = surface_size,
              !.stateless_size = IF w.stateless THEN surface_size ELSE @]

\* WaylandWindow::resize aborts on NonZeroU32::new(0).unwrap() when a visible
\* frame is resized to an empty size
resize_aborts(w, surface_size) ==
    w.window_frame /\ w.decorate /\ (surface_size[1] = 0 \/ surface_size[2] = 0)

\* the window after WindowHandler::configure
configure_window(w, cfg, frame_ok, b) ==
    LET has_frame == frame_after(w, cfg, frame_ok)
        w1 == [w EXCEPT !.window_frame = has_frame, !.stateless = is_stateless(cfg)]
        new_size == configure_new_size(w1, cfg, has_frame, b)
        w2 == [w1 EXCEPT !.state = cfg.state]
    IN  IF configure_resize(w1, cfg, new_size) THEN window_resize(w2, new_size) ELSE w2

\* ------------------------------------------------------------ run: phases
\* a variant of the order below with the close loop ahead of the loops over
\* the accessibility and the internal events
DrainPhases_close_early ==
    <<"take", "new_windows", "locked", "user_events", "rescale", "resize",
      "user_signals", "close", "accesskit", "events", "redraw", "boundary">>

\* a variant of the order below with the new windows announced after the
\* resize loop
DrainPhases_new_windows_late ==
    <<"take", "locked", "user_events", "rescale", "resize", "new_windows",
      "user_signals", "accesskit", "events", "redraw", "close", "boundary">>

\* The statements of the Ok arm of run() in program order, from the mem::take
\* of the pending collections to the test that ends the loop body.
DrainPhases ==
    <<"take", "new_windows", "locked", "user_events", "rescale", "resize",
      "user_signals", "accesskit", "events", "redraw", "close", "boundary">>

\* the statement that follows phase p
PhaseAfter(p) == DrainPhases[IndexOf(p, DrainPhases) + 1]

\* a callback of ApplicationHandler as the application observes it
Cb(name, id, arg) == <<name, id, arg>>

\* an abort of the loop thread with its message, as the application observes it
Abort(id, message) == <<"panic", id, <<message>>>>

\* --------------------------------------------------------------- registry
\* a variant of is_empty that forgets the lock surfaces
is_empty_windows_only == DOMAIN windows = {}

\* WindowsRegistry::is_empty
is_empty == DOMAIN windows = {} /\ DOMAIN screenlocks = {}

\* a variant of insert_window_aborts that lets an insert replace a window
insert_window_aborts_never(id) == FALSE

\* WindowsRegistry::insert_window aborts on an identity already present
insert_window_aborts(id) == id \in DOMAIN windows

\* a variant of insert_window that loses the window
insert_window_dropped(id, window) == windows

\* WindowsRegistry::insert_window: the map afterwards
insert_window(id, window) == windows @@ (id :> window)

\* WindowsRegistry::remove_window aborts on an absent identity
remove_window_aborts(map, id) == id \notin DOMAIN map

\* WindowsRegistry::remove_window: the map afterwards
remove_window(map, id) == [x \in DOMAIN map \ {id} |-> map[x]]

\* every surface identity handed out so far
AllSurfaces == 1..(next_id - 1)

\* ------------------------------------------------------------------- Init
\* WlEventLoop::init: the state after construction, run() not yet called
InitWith(sub) ==
    /\ pc = "init"
    /\ running = TRUE
    /\ LOOP_RUNNING = TRUE
    /\ SCREENLOCK = FALSE
    /\ locker_chan = 0
    /\ session_lock = "None"
    /\ windows = <<>>
    /\ screenlocks = <<>>
    /\ new_windows = <<>>
    /\ new_screenlock = <<>>
    /\ rescale_request = <<>>
    /\ resize_request = <<>>
    /\ redraw_request = <<>>
    /\ close_request = <<>>
    /\ l_new_windows = <<>>
    /\ l_locked = <<>>
    /\ l_rescale = <<>>
    /\ l_resize = <<>>
    /\ l_redraw = <<>>
    /\ l_close = <<>>
    /\ create_chan = <<>>
    /\ user_chan = <<>>
    /\ user_events = <<>>
    /\ event_chan = <<>>
    /\ events = <<>>
    /\ accesskit_chan = <<>>
    /\ accesskit_events = <<>>
    /\ keyboard_focus = None
    /\ keyboard = FALSE
    /\ by_seat = <<>>
    /\ by_pointer = <<>>
    /\ next_dev = 0
    /\ touch_state = <<>>
    /\ subcompositor = sub
    /\ csd_fails = TRUE
    /\ next_id = 1
    /\ next_lock = 0
    /\ fuel = MaxFuel
    /\ woken = FALSE
    /\ h_tick = <<>>
    /\ h_closed = <<>>
    /\ h_created = <<>>
    /\ h_requested = 0
    /\ h_submitted = <<>>
    /\ h_delivered = <<>>
    /\ h_stop_at = "never"
    /\ h_got = {}
    /\ h_first = None
    /\ h_attempts = <<>>
    /\ h_last = <<>>

Init == InitWith(TRUE)

\* ------------------------------------------------- requests of any thread
\* LoopHandler::stop
stop ==
    /\ LOOP_RUNNING' = FALSE
    /\ h_stop_at' = IF h_stop_at = "never" /\ pc \notin {"stopped", "error", "panic"}
                    THEN pc ELSE h_stop_at
    /\ UNCHANGED <<pc, running, windows, screenlocks, new_windows,
                 new_screenlock, rescale_request, resize_request,
                 redraw_request, close_request, l_new_windows, l_locked,
                 l_rescale, l_resize, l_redraw, l_close, create_chan,
                 user_chan, user_events, event_chan, events, accesskit_chan,
                 accesskit_events, SCREENLOCK, locker_chan, session_lock,
                 keyboard_focus, keyboard, by_seat, by_pointer, next_dev,
                 touch_state, subcompositor, csd_fails, next_id, next_lock,
                 fuel, woken, h_tick, h_closed, h_created, h_requested,
                 h_submitted, h_delivered, h_got, h_first, h_attempts, h_last>>

\* LoopHandler::screenlock: a message is sent on the locker channel and the
\* lock-active flag is set
screenlock ==
    /\ fuel > 0
    /\ pc \notin {"init", "stopped", "error"}
    /\ locker_chan' = locker_chan + 1
    /\ SCREENLOCK' = TRUE
    /\ fuel' = fuel - 1
    /\ UNCHANGED <<pc, running, LOOP_RUNNING, windows, screenlocks, new_windows,
                 new_screenlock, rescale_request, resize_request,
                 redraw_request, close_request, l_new_windows, l_locked,
                 l_rescale, l_resize, l_redraw, l_close, create_chan,
                 user_chan, user_events, event_chan, events, accesskit_chan,
                 accesskit_events, session_lock, keyboard_focus, keyboard,
                 by_seat, by_pointer, next_dev, touch_state, subcompositor,
                 csd_fails, next_id, next_lock, woken, h_tick, h_closed,
                 h_created, h_requested, h_submitted, h_delivered, h_stop_at,
                 h_got, h_first, h_attempts, h_last>>

\* LoopHandler::unlock: the lock-active flag is cleared
unlock ==
    /\ SCREENLOCK' = FALSE
    /\ UNCHANGED <<pc, running, LOOP_RUNNING, windows, screenlocks, new_windows,
                 new_screenlock, rescale_request, resize_request,
                 redraw_request, close_request, l_new_windows, l_locked,
                 l_rescale, l_resize, l_redraw, l_close, create_chan,
                 user_chan, user_events, event_chan, events, accesskit_chan,
                 accesskit_events, locker_chan, session_lock, keyboard_focus,
                 keyboard, by_seat, by_pointer, next_dev, touch_state,
                 subcompositor, csd_fails, next_id, next_lock, fuel, woken,
                 h_tick, h_closed, h_created, h_requested, h_submitted,
                 h_delivered, h_stop_at, h_got, h_first, h_attempts, h_last>>

\* LoopHandler::request_new_window: the attributes are sent on the creation
\* channel.  The loop thread looks at the channel inside dispatch only, so a
\* request made while a tick is drained is the same to it as one made when
\* the next dispatch has begun.
request_new_window(attr) ==
    /\ pc \in {"init", "dispatch"}
    /\ Len(create_chan) + next_id - 1 < MaxWindows
    /\ create_chan' = Append(create_chan, attr)
    /\ h_requested' = h_requested + 1
    /\ UNCHANGED <<pc, running, LOOP_RUNNING, windows, screenlocks, new_windows,
                 new_screenlock, rescale_request, resize_request,
                 redraw_request, close_request, l_new_windows, l_locked,
                 l_rescale, l_resize, l_redraw, l_close, user_chan,
                 user_events, event_chan, events, accesskit_chan,
                 accesskit_events, SCREENLOCK, locker_chan, session_lock,
                 keyboard_focus, keyboard, by_seat, by_pointer, next_dev,
                 touch_state, subcompositor, csd_fails, next_id, next_lock,
                 fuel, woken, h_tick, h_closed, h_created, h_submitted,
                 h_delivered, h_stop_at, h_got, h_first, h_attempts, h_last>>

\* WlEventLoop::send_event: it borrows the loop, which run() borrows mutably,
\* so it is called while run() is not executing
send_event(event) ==
    /\ pc = "init"
    /\ Len(h_submitted) < MaxUserEvents
    /\ user_chan' = Append(user_chan, event)
    /\ h_submitted' = Append(h_submitted, event)
    /\ UNCHANGED <<pc, running, LOOP_RUNNING, windows, screenlocks, new_windows,
                 new_screenlock, rescale_request, resize_request,
                 redraw_request, close_request, l_new_windows, l_locked,
                 l_rescale, l_resize, l_redraw, l_close, create_chan,
                 user_events, event_chan, events, accesskit_chan,
                 accesskit_events, SCREENLOCK, locker_chan, session_lock,
                 keyboard_focus, keyboard, by_seat, by_pointer, next_dev,
                 touch_state, subcompositor, csd_fails, next_id, next_lock,
                 fuel, woken, h_tick, h_closed, h_created, h_requested,
                 h_delivered, h_stop_at, h_got, h_first, h_attempts, h_last>>

\* AccesskitHandler::do_action, request_initial_tree, deactivate_accessibility:
\* the adapter of a live window sends from the accessibility thread (the loop
\* thread looks at the channel inside dispatch only)
accesskit_send(kind, id) ==
    /\ pc = "dispatch"
    /\ fuel > 0
    /\ id \in DOMAIN windows
    /\ accesskit_chan' = Append(accesskit_chan, <<kind, id>>)
    /\ fuel' = fuel - 1
    /\ UNCHANGED <<pc, running, LOOP_RUNNING, windows, screenlocks, new_windows,
                 new_screenlock, rescale_request, resize_request,
                 redraw_request, close_request, l_new_windows, l_locked,
                 l_rescale, l_resize, l_redraw, l_close, create_chan,
                 user_chan, user_events, event_chan, events, accesskit_events,
                 SCREENLOCK, locker_chan, session_lock, keyboard_focus,
                 keyboard, by_seat, by_pointer, next_dev, touch_state,
                 subcompositor, csd_fails, next_id, next_lock, woken, h_tick,
                 h_closed, h_created, h_requested, h_submitted, h_delivered,
                 h_stop_at, h_got, h_first, h_attempts, h_last>>

\* ------------------------------------------------------------- run: start
\* WlEventLoop::run up to the first dispatch
run_start ==
    /\ pc = "init"
    /\ running' = TRUE
    /\ pc' = "dispatch"
    /\ woken' = FALSE
    /\ UNCHANGED <<LOOP_RUNNING, windows, screenlocks, new_windows,
                 new_screenlock, rescale_request, resize_request,
                 redraw_request, close_request, l_new_windows, l_locked,
                 l_rescale, l_resize, l_redraw, l_close, create_chan,
                 user_chan, user_events, event_chan, events, accesskit_chan,
                 accesskit_events, SCREENLOCK, locker_chan, session_lock,
                 keyboard_focus, keyboard, by_seat, by_pointer, next_dev,
                 touch_state, subcompositor, csd_fails, next_id, next_lock,
                 fuel, h_tick, h_closed, h_created, h_requested, h_submitted,
                 h_delivered, h_stop_at, h_got, h_first, h_attempts, h_last>>

\* ------------------------------------------- dispatch: channel callbacks
\* the creation channel's callback: WaylandState::create_window
create_window ==
    /\ pc = "dispatch"
    /\ create_chan # <<>>
    /\ IF insert_window_aborts(next_id)
       THEN /\ pc' = "panic"
            /\ h_tick' = Append(h_tick, Abort(next_id, "Failed to add window with the existing id"))
            /\ new_windows' = Append(new_windows, next_id)
            /\ UNCHANGED <<windows, next_id>>
       ELSE /\ new_windows' = Append(new_windows, next_id)
            /\ windows' = insert_window(next_id, WithCore(next_id, WaylandWindow_new(Head(create_chan))))
            /\ next_id' = next_id + 1
            /\ UNCHANGED <<pc, h_tick>>
    /\ h_last' = IF insert_window_aborts(next_id) THEN h_last
                 ELSE h_last @@ (next_id :> WaylandWindow_new(Head(create_chan)).size)
    /\ create_chan' = Tail(create_chan)
    /\ woken' = TRUE
    /\ UNCHANGED <<running, LOOP_RUNNING, screenlocks, new_screenlock,
                 rescale_request, resize_request, redraw_request,
                 close_request, l_new_windows, l_locked, l_rescale, l_resize,
                 l_redraw, l_close, user_chan, user_events, event_chan,
                 events, accesskit_chan, accesskit_events, SCREENLOCK,
                 locker_chan, session_lock, keyboard_focus, keyboard, by_seat,
                 by_pointer, next_dev, touch_state, subcompositor, csd_fails,
                 next_lock, fuel, h_closed, h_created, h_requested,
                 h_submitted, h_delivered, h_stop_at, h_got, h_first,
                 h_attempts>>

\* a variant of the user-event channel's callback that pushes to the front
recv_user_event_push_front ==
    /\ pc = "dispatch"
    /\ user_chan # <<>>
    /\ user_events' = <<Head(user_chan)>> \o user_events
    /\ user_chan' = Tail(user_chan)
    /\ woken' = TRUE
    /\ UNCHANGED <<pc, running, LOOP_RUNNING, windows, screenlocks, new_windows,
                 new_screenlock, rescale_request, resize_request,
                 redraw_request, close_request, l_new_windows, l_locked,
                 l_rescale, l_resize, l_redraw, l_close, create_chan,
                 event_chan, events, accesskit_chan, accesskit_events,
                 SCREENLOCK, locker_chan, session_lock, keyboard_focus,
                 keyboard, by_seat, by_pointer, next_dev, touch_state,
                 subcompositor, csd_fails, next_id, next_lock, fuel, h_tick,
                 h_closed, h_created, h_requested, h_submitted, h_delivered,
                 h_stop_at, h_got, h_first, h_attempts, h_last>>

\* the user-event channel's callback
recv_user_event ==
    /\ pc = "dispatch"
    /\ user_chan # <<>>
    /\ user_events' = Append(user_events, Head(user_chan))
    /\ user_chan' = Tail(user_chan)
    /\ woken' = TRUE
    /\ UNCHANGED <<pc, running, LOOP_RUNNING, windows, screenlocks, new_windows,
                 new_screenlock, rescale_request, resize_request,
                 redraw_request, close_request, l_new_windows, l_locked,
                 l_rescale, l_resize, l_redraw, l_close, create_chan,
                 event_chan, events, accesskit_chan, accesskit_events,
                 SCREENLOCK, locker_chan, session_lock, keyboard_focus,
                 keyboard, by_seat, by_pointer, next_dev, touch_state,
                 subcompositor, csd_fails, next_id, next_lock, fuel, h_tick,
                 h_closed, h_created, h_requested, h_submitted, h_delivered,
                 h_stop_at, h_got, h_first, h_attempts, h_last>>

\* the callback of the channel behind WaylandState::event_sender
recv_event ==
    /\ pc = "dispatch"
    /\ event_chan # <<>>
    /\ events' = Append(events, Head(event_chan))
    /\ event_chan' = Tail(event_chan)
    /\ woken' = TRUE
    /\ UNCHANGED <<pc, running, LOOP_RUNNING, windows, screenlocks, new_windows,
                 new_screenlock, rescale_request, resize_request,
                 redraw_request, close_request, l_new_windows, l_locked,
                 l_rescale, l_resize, l_redraw, l_close, create_chan,
                 user_chan, user_events, accesskit_chan, accesskit_events,
                 SCREENLOCK, locker_chan, session_lock, keyboard_focus,
                 keyboard, by_seat, by_pointer, next_dev, touch_state,
                 subcompositor, csd_fails, next_id, next_lock, fuel, h_tick,
                 h_closed, h_created, h_requested, h_submitted, h_delivered,
                 h_stop_at, h_got, h_first, h_attempts, h_last>>

\* a variant of the accessibility channel's callback that pushes to the front
recv_accesskit_event_push_front ==
    /\ pc = "dispatch"
    /\ accesskit_chan # <<>>
    /\ accesskit_events' = <<Head(accesskit_chan)>> \o accesskit_events
    /\ accesskit_chan' = Tail(accesskit_chan)
    /\ woken' = TRUE
    /\ UNCHANGED <<pc, running, LOOP_RUNNING, windows, screenlocks, new_windows,
                 new_screenlock, rescale_request, resize_request,
                 redraw_request, close_request, l_new_windows, l_locked,
                 l_rescale, l_resize, l_redraw, l_close, create_chan,
                 user_chan, user_events, event_chan, events, SCREENLOCK,
                 locker_chan, session_lock, keyboard_focus, keyboard, by_seat,
                 by_pointer, next_dev, touch_state, subcompositor, csd_fails,
                 next_id, next_lock, fuel, h_tick, h_closed, h_created,
                 h_requested, h_submitted, h_delivered, h_stop_at, h_got,
                 h_first, h_attempts, h_last>>

\* the callback of the channel behind WaylandState::accesskit_event_sender
recv_accesskit_event ==
    /\ pc = "dispatch"
    /\ accesskit_chan # <<>>
    /\ accesskit_events' = Append(accesskit_events, Head(accesskit_chan))
    /\ accesskit_chan' = Tail(accesskit_chan)
    /\ woken' = TRUE
    /\ UNCHANGED <<pc, running, LOOP_RUNNING, windows, screenlocks, new_windows,
                 new_screenlock, rescale_request, resize_request,
                 redraw_request, close_request, l_new_windows, l_locked,
                 l_rescale, l_resize, l_redraw, l_close, create_chan,
                 user_chan, user_events, event_chan, events, SCREENLOCK,
                 locker_chan, session_lock, keyboard_focus, keyboard, by_seat,
                 by_pointer, next_dev, touch_state, subcompositor, csd_fails,
                 next_id, next_lock, fuel, h_tick, h_closed, h_created,
                 h_requested, h_submitted, h_delivered, h_stop_at, h_got,
                 h_first, h_attempts, h_last>>

\* a variant of scale_factor_changed that marks the surface for rescale
\* without looking it up
scale_factor_changed_no_lookup(id, new_factor) ==
    /\ pc = "dispatch"
    /\ fuel > 0
    /\ windows' = IF id \in DOMAIN windows
                  THEN [windows EXCEPT ![id].scale_factor = new_factor] ELSE windows
    /\ rescale_request' = IndexSetInsert(rescale_request, id)
    /\ h_got' = h_got \cup {<<"scale", id, "">>}
    /\ fuel' = fuel - 1
    /\ woken' = TRUE
    /\ UNCHANGED <<pc, running, LOOP_RUNNING, screenlocks, new_windows,
                 new_screenlock, resize_request, redraw_request,
                 close_request, l_new_windows, l_locked, l_rescale, l_resize,
                 l_redraw, l_close, create_chan, user_chan, user_events,
                 event_chan, events, accesskit_chan, accesskit_events,
                 SCREENLOCK, locker_chan, session_lock, keyboard_focus,
                 keyboard, by_seat, by_pointer, next_dev, touch_state,
                 subcompositor, csd_fails, next_id, next_lock, h_tick,
                 h_closed, h_created, h_requested, h_submitted, h_delivered,
                 h_stop_at, h_first, h_attempts, h_last>>

\* ------------------------------------------- dispatch: protocol handlers
\* CompositorHandler::scale_factor_changed
scale_factor_changed(id, new_factor) ==
    /\ pc = "dispatch"
    /\ fuel > 0
    /\ IF id \in DOMAIN windows
       THEN /\ windows' = [windows EXCEPT ![id].scale_factor = new_factor]
            /\ rescale_request' = IndexSetInsert(rescale_request, id)
            /\ h_got' = h_got \cup {<<"scale", id, "">>}
       ELSE UNCHANGED <<windows, rescale_request, h_got>>
    /\ fuel' = fuel - 1
    /\ woken' = TRUE
    /\ UNCHANGED <<pc, running, LOOP_RUNNING, screenlocks, new_windows,
                 new_screenlock, resize_request, redraw_request,
                 close_request, l_new_windows, l_locked, l_rescale, l_resize,
                 l_redraw, l_close, create_chan, user_chan, user_events,
                 event_chan, events, accesskit_chan, accesskit_events,
                 SCREENLOCK, locker_chan, session_lock, keyboard_focus,
                 keyboard, by_seat, by_pointer, next_dev, touch_state,
                 subcompositor, csd_fails, next_id, next_lock, h_tick,
                 h_closed, h_created, h_requested, h_submitted, h_delivered,
                 h_stop_at, h_first, h_attempts, h_last>>

\* CompositorHandler::frame
frame(id) ==
    /\ pc = "dispatch"
    /\ fuel > 0
    /\ redraw_request' = IndexSetInsert(redraw_request, id)
    /\ h_got' = h_got \cup {<<"frame", id, "">>}
    /\ fuel' = fuel - 1
    /\ woken' = TRUE
    /\ UNCHANGED <<pc, running, LOOP_RUNNING, windows, screenlocks, new_windows,
                 new_screenlock, rescale_request, resize_request,
                 close_request, l_new_windows, l_locked, l_rescale, l_resize,
                 l_redraw, l_close, create_chan, user_chan, user_events,
                 event_chan, events, accesskit_chan, accesskit_events,
                 SCREENLOCK, locker_chan, session_lock, keyboard_focus,
                 keyboard, by_seat, by_pointer, next_dev, touch_state,
                 subcompositor, csd_fails, next_id, next_lock, h_tick,
                 h_closed, h_created, h_requested, h_submitted, h_delivered,
                 h_stop_at, h_first, h_attempts, h_last>>

\* WindowHandler::request_close
request_close(id) ==
    /\ pc = "dispatch"
    /\ fuel > 0
    /\ close_request' = IndexSetInsert(close_request, id)
    /\ h_got' = h_got \cup {<<"close", id, "">>}
    /\ fuel' = fuel - 1
    /\ woken' = TRUE
    /\ UNCHANGED <<pc, running, LOOP_RUNNING, windows, screenlocks, new_windows,
                 new_screenlock, rescale_request, resize_request,
                 redraw_request, l_new_windows, l_locked, l_rescale, l_resize,
                 l_redraw, l_close, create_chan, user_chan, user_events,
                 event_chan, events, accesskit_chan, accesskit_events,
                 SCREENLOCK, locker_chan, session_lock, keyboard_focus,
                 keyboard, by_seat, by_pointer, next_dev, touch_state,
                 subcompositor, csd_fails, next_id, next_lock, h_tick,
                 h_closed, h_created, h_requested, h_submitted, h_delivered,
                 h_stop_at, h_first, h_attempts, h_last>>

\* What a configure is for the window it arrives at, in the words of the
\* state-machine description: "size" when the computed size differs from the
\* current one, else "forced" when a bit other than activated and suspended
\* differs between the old and the new state, else "quiet".
ConfigureKind(w, cfg, frame_ok, b) ==
    LET has_frame == frame_after(w, cfg, frame_ok)
        target == configure_new_size([w EXCEPT !.stateless = is_stateless(cfg)], cfg, has_frame, b)
        flipped == {bit \in StateBits : (bit \in w.state) # (bit \in cfg.state)}
    IN  IF target # w.size THEN "size"
        ELSE IF flipped \ {"ACTIVATED", "SUSPENDED"} # {} THEN "forced"
        ELSE "quiet"

\* WindowHandler::configure
configure(id, cfg, frame_ok, b) ==
    /\ pc = "dispatch"
    /\ fuel > 0
    /\ IF id \in DOMAIN windows
       THEN LET w == windows[id]
                has_frame == frame_after(w, cfg, frame_ok)
                w1 == [w EXCEPT !.window_frame = has_frame, !.stateless = is_stateless(cfg)]
                new_size == configure_new_size(w1, cfg, has_frame, b)
                resize == configure_resize(w1, cfg, new_size)
            IN  /\ csd_fails' = IF frame_attempted(w, cfg) /\ ~frame_ok THEN TRUE ELSE csd_fails
                /\ windows' = [windows EXCEPT ![id] = configure_window(w, cfg, frame_ok, b)]
                /\ IF resize /\ resize_aborts(w1, new_size)
                   THEN /\ pc' = "panic"
                        /\ h_tick' = Append(h_tick, Abort(id, "called Option::unwrap on a None value"))
                        /\ UNCHANGED <<resize_request, redraw_request>>
                   ELSE /\ resize_request' = IF resize THEN IndexSetInsert(resize_request, id)
                                             ELSE resize_request
                        /\ redraw_request' = IndexSetInsert(redraw_request, id)
                        /\ UNCHANGED <<pc, h_tick>>
                /\ h_got' = h_got \cup {<<"cfg", id, ConfigureKind(w, cfg, frame_ok, b)>>}
                /\ h_first' = IF w = WithCore(id, WaylandWindow_new(DefaultAttributes))
                                 /\ \A k \in {"size", "forced", "quiet"} : <<"cfg", id, k>> \notin h_got
                              THEN <<id, cfg, b>>
                              ELSE IF h_first # None /\ h_first[1] = id THEN None ELSE h_first
                /\ h_attempts' = IF frame_attempted(w, cfg)
                                 THEN Append(h_attempts, IF frame_ok THEN "ok" ELSE "failed")
                                 ELSE h_attempts
                /\ h_last' = IF is_stateless(cfg) /\ ~(resize /\ resize_aborts(w1, new_size))
                             THEN [h_last EXCEPT ![id] = configure_window(w, cfg, frame_ok, b).size]
                             ELSE h_last
       ELSE /\ redraw_request' = IndexSetInsert(redraw_request, id)
            /\ UNCHANGED <<pc, h_tick, csd_fails, windows, resize_request, h_got, h_first, h_attempts, h_last>>
    /\ fuel' = fuel - 1
    /\ woken' = TRUE
    /\ UNCHANGED <<running, LOOP_RUNNING, screenlocks, new_windows,
                 new_screenlock, rescale_request, close_request,
                 l_new_windows, l_locked, l_rescale, l_resize, l_redraw,
                 l_close, create_chan, user_chan, user_events, event_chan,
                 events, accesskit_chan, accesskit_events, SCREENLOCK,
                 locker_chan, session_lock, keyboard_focus, keyboard, by_seat,
                 by_pointer, next_dev, touch_state, subcompositor, next_id,
                 next_lock, h_closed, h_created, h_requested, h_submitted,
                 h_delivered, h_stop_at>>

\* PhysicalSize::to_logical(scale_factor) into u32: the quotient is rounded
to_logical(size, scale_factor) ==
    <<(2 * size[1] + scale_factor) \div (2 * scale_factor),
      (2 * size[2] + scale_factor) \div (2 * scale_factor)>>

\* WaylandWindow::request_inner_size, called by the application on a window
\* that user_signals_handle hands to it: a stateless window is resized to the
\* requested size
request_inner_size(id, inner_size) ==
    /\ pc = "user_signals"
    /\ fuel > 0
    /\ id \in DOMAIN windows
    /\ LET w == windows[id]
           surface_size == to_logical(inner_size, w.scale_factor)
       IN  IF w.stateless
           THEN /\ windows' = [windows EXCEPT ![id] = window_resize(w, surface_size)]
                /\ IF resize_aborts(w, surface_size)
                   THEN /\ pc' = "panic"
                        /\ h_tick' = Append(h_tick, Abort(id, "called Option::unwrap on a None value"))
                   ELSE UNCHANGED <<pc, h_tick>>
           ELSE UNCHANGED <<windows, pc, h_tick>>
    /\ fuel' = fuel - 1
    /\ UNCHANGED <<running, LOOP_RUNNING, screenlocks, new_windows,
                 new_screenlock, rescale_request, resize_request,
                 redraw_request, close_request, l_new_windows, l_locked,
                 l_rescale, l_resize, l_redraw, l_close, create_chan,
                 user_chan, user_events, event_chan, events, accesskit_chan,
                 accesskit_events, SCREENLOCK, locker_chan, session_lock,
                 keyboard_focus, keyboard, by_seat, by_pointer, next_dev,
                 touch_state, subcompositor, csd_fails, next_id, next_lock,
                 woken, h_closed, h_created, h_requested, h_submitted,
                 h_delivered, h_stop_at, h_got, h_first, h_attempts, h_last>>

\* WaylandWindow::set_min_surface_size, called by the application on a window
\* that user_signals_handle hands to it; `b` is the border of the frame
set_min_surface_size(id, size, b) ==
    /\ pc = "user_signals"
    /\ fuel > 0
    /\ id \in DOMAIN windows
    /\ windows' = [windows EXCEPT ![id].min_surface_size =
                      min_surface_size_of(size, windows[id].window_frame, ~windows[id].decorate, b)]
    /\ fuel' = fuel - 1
    /\ UNCHANGED <<pc, running, LOOP_RUNNING, screenlocks, new_windows,
                 new_screenlock, rescale_request, resize_request,
                 redraw_request, close_request, l_new_windows, l_locked,
                 l_rescale, l_resize, l_redraw, l_close, create_chan,
                 user_chan, user_events, event_chan, events, accesskit_chan,
                 accesskit_events, SCREENLOCK, locker_chan, session_lock,
                 keyboard_focus, keyboard, by_seat, by_pointer, next_dev,
                 touch_state, subcompositor, csd_fails, next_id, next_lock,
                 woken, h_tick, h_closed, h_created, h_requested, h_submitted,
                 h_delivered, h_stop_at, h_got, h_first, h_attempts, h_last>>

\* the names of PointerButton for the raw codes 0x110..0x12e, in order
ButtonNames ==
    <<"Primary", "Secondary", "Auxiliary", "X1", "X2", "B7", "B8", "B9", "B10",
      "B11", "B12", "B13", "B14", "B15", "B16", "B17", "B18", "B19", "B20",
      "B21", "B22", "B23", "B24", "B25", "B26", "B27", "B28", "B29", "B30",
      "B31", "B32">>

\* try_from_button: Some(button), written <<button>>, or None
try_from_button(code) ==
    IF code >= 272 /\ code <= 302 THEN <<ButtonNames[code - 271]>>
    ELSE IF code = 331 THEN <<"PenEraser">>
    ELSE None

\* LogicalPosition::to_physical(scale_factor)
to_physical(position, scale_factor) ==
    <<position[1] * scale_factor, position[2] * scale_factor>>

\* what a pointer event carries, as far as it is looked at: the button, the
\* position of its PointerState and the touch contact of its PointerInfo
\* (None for a mouse)
Payload(button, position, contact) ==
    [button |-> button, position |-> position, contact |-> contact]

\* a variant of pointer_frame that forwards a press to the application
\* whatever surface it hits
pointer_frame_forwards_all(parent, deco, kind, button, position, close) ==
    /\ pc = "dispatch"
    /\ fuel > 0
    /\ redraw_request' = IF kind \in {"Press", "Release"} /\ deco
                         THEN IndexSetInsert(redraw_request, parent) ELSE redraw_request
    /\ events' = IF parent \in DOMAIN windows /\ kind # "Axis"
                 THEN Append(events, <<"Pointer", parent, kind,
                                       Payload(try_from_button(button),
                                               to_physical(position, windows[parent].scale_factor),
                                               None)>>)
                 ELSE events
    /\ fuel' = fuel - 1
    /\ woken' = TRUE
    /\ UNCHANGED <<pc, running, LOOP_RUNNING, windows, screenlocks, new_windows,
                 new_screenlock, rescale_request, resize_request,
                 close_request, l_new_windows, l_locked, l_rescale, l_resize,
                 l_redraw, l_close, create_chan, user_chan, user_events,
                 event_chan, accesskit_chan, accesskit_events, SCREENLOCK,
                 locker_chan, session_lock, keyboard_focus, keyboard, by_seat,
                 by_pointer, next_dev, touch_state, subcompositor, csd_fails,
                 next_id, next_lock, h_tick, h_closed, h_created, h_requested,
                 h_submitted, h_delivered, h_stop_at, h_got, h_first,
                 h_attempts, h_last>>

\* PointerHandler::pointer_frame for one event of a registered pointer.
\* `parent` is the window the surface belongs to, `deco` tells a decoration
\* sub-surface from the window's own surface, `button` is the raw button
\* code, `position` the logical position of the event and `close` whether the
\* frame answers the click with FrameAction::Close.
pointer_frame(parent, deco, kind, button, position, close) ==
    /\ pc = "dispatch"
    /\ fuel > 0
    /\ LET pressed == kind \in {"Press", "Release"}
           rr == IF pressed /\ deco THEN IndexSetInsert(redraw_request, parent)
                 ELSE redraw_request
           present == parent \in DOMAIN windows
       IN  /\ redraw_request' = rr
           /\ close_request' =
                 IF present /\ deco /\ pressed /\ button \in {272, 273}
                    /\ windows[parent].window_frame /\ close
                 THEN IndexSetInsert(close_request, parent)
                 ELSE close_request
           /\ events' =
                 IF present /\ ~deco /\ kind # "Axis"
                 THEN Append(events,
                        <<"Pointer", parent, kind,
                          Payload(IF pressed THEN try_from_button(button) ELSE None,
                                  IF kind \in {"Enter", "Leave"} THEN None
                                  ELSE to_physical(position, windows[parent].scale_factor),
                                  None)>>)
                 ELSE events
    /\ fuel' = fuel - 1
    /\ woken' = TRUE
    /\ UNCHANGED <<pc, running, LOOP_RUNNING, windows, screenlocks, new_windows,
                 new_screenlock, rescale_request, resize_request,
                 l_new_windows, l_locked, l_rescale, l_resize, l_redraw,
                 l_close, create_chan, user_chan, user_events, event_chan,
                 accesskit_chan, accesskit_events, SCREENLOCK, locker_chan,
                 session_lock, keyboard_focus, keyboard, by_seat, by_pointer,
                 next_dev, touch_state, subcompositor, csd_fails, next_id,
                 next_lock, h_tick, h_closed, h_created, h_requested,
                 h_submitted, h_delivered, h_stop_at, h_got, h_first,
                 h_attempts, h_last>>

\* HashMap::insert: the entry of key k is v, whether k was a key or not
MapInsert(m, k, v) == [x \in DOMAIN m \cup {k} |-> IF x = k THEN v ELSE m[x]]

\* HashMap::remove of a key
MapRemove(m, k) == [x \in DOMAIN m \ {k} |-> m[x]]

\* PointerRegistry::add
PointerRegistry_add(seat_id, pointer_id, kind) ==
    /\ by_seat' = MapInsert(by_seat, seat_id, <<pointer_id, kind>>)
    /\ by_pointer' = MapInsert(by_pointer, pointer_id, <<seat_id, kind>>)

\* PointerRegistry::remove, its result: the PointerInfo (here the device it
\* names) looked up in by_pointer after the device's entry has been removed
PointerRegistry_remove_info(seat_id) ==
    IF seat_id \in DOMAIN by_seat
    THEN LET id == by_seat[seat_id][1]
             after == MapRemove(by_pointer, id)
         IN  IF id \in DOMAIN after THEN <<id>> ELSE None
    ELSE None

\* PointerRegistry::remove, its effect on the two maps
PointerRegistry_remove(seat_id) ==
    IF seat_id \in DOMAIN by_seat
    THEN /\ by_pointer' = MapRemove(by_pointer, by_seat[seat_id][1])
         /\ by_seat' = MapRemove(by_seat, seat_id)
    ELSE UNCHANGED <<by_seat, by_pointer>>

\* SeatHandler::new_capability; `ok` tells whether the device was obtained
new_capability(seat, capability, ok) ==
    /\ pc = "dispatch"
    /\ fuel > 0
    /\ IF capability \in {"Pointer", "Touch"}
       THEN /\ next_dev < MaxDevices
            /\ IF ok
               THEN /\ PointerRegistry_add(seat, next_dev + 1,
                                           IF capability = "Pointer" THEN "Mouse" ELSE "Touch")
                    /\ next_dev' = next_dev + 1
               ELSE UNCHANGED <<by_seat, by_pointer, next_dev>>
            /\ UNCHANGED keyboard
       ELSE /\ keyboard' = IF capability = "Keyboard" /\ ~keyboard /\ ok THEN TRUE ELSE keyboard
            /\ UNCHANGED <<by_seat, by_pointer, next_dev>>
    /\ fuel' = fuel - 1
    /\ woken' = TRUE
    /\ UNCHANGED <<pc, running, LOOP_RUNNING, windows, screenlocks, new_windows,
                 new_screenlock, rescale_request, resize_request,
                 redraw_request, close_request, l_new_windows, l_locked,
                 l_rescale, l_resize, l_redraw, l_close, create_chan,
                 user_chan, user_events, event_chan, events, accesskit_chan,
                 accesskit_events, SCREENLOCK, locker_chan, session_lock,
                 keyboard_focus, touch_state, subcompositor, csd_fails,
                 next_id, next_lock, h_tick, h_closed, h_created, h_requested,
                 h_submitted, h_delivered, h_stop_at, h_got, h_first,
                 h_attempts, h_last>>

\* the Cancel events remove_capability sends, one for every window
CancelEvents(info) ==
    LET ids == DOMAIN windows
        RECURSIVE Each(_)
        Each(S) == IF S = {} THEN <<>>
                   ELSE LET id == CHOOSE x \in S : \A y \in S : x <= y
                        IN  <<<<"Pointer", id, "Cancel">>>> \o Each(S \ {id})
    IN  IF info = None THEN <<>> ELSE Each(ids)

\* SeatHandler::remove_capability
remove_capability(seat, capability) ==
    /\ pc = "dispatch"
    /\ fuel > 0
    /\ IF capability = "Keyboard" /\ keyboard
       THEN /\ event_chan' = IF keyboard_focus # None
                             THEN Append(event_chan, <<"Focus", keyboard_focus[1], "false">>)
                             ELSE event_chan
            /\ keyboard_focus' = None
            /\ keyboard' = FALSE
            /\ UNCHANGED <<by_seat, by_pointer>>
       ELSE IF capability \in {"Pointer", "Touch"}
       THEN /\ event_chan' = event_chan \o CancelEvents(PointerRegistry_remove_info(seat))
            /\ PointerRegistry_remove(seat)
            /\ UNCHANGED <<keyboard, keyboard_focus>>
       ELSE UNCHANGED <<event_chan, keyboard, keyboard_focus, by_seat, by_pointer>>
    /\ fuel' = fuel - 1
    /\ woken' = TRUE
    /\ UNCHANGED <<pc, running, LOOP_RUNNING, windows, screenlocks, new_windows,
                 new_screenlock, rescale_request, resize_request,
                 redraw_request, close_request, l_new_windows, l_locked,
                 l_rescale, l_resize, l_redraw, l_close, create_chan,
                 user_chan, user_events, events, accesskit_chan,
                 accesskit_events, SCREENLOCK, locker_chan, session_lock,
                 next_dev, touch_state, subcompositor, csd_fails, next_id,
                 next_lock, h_tick, h_closed, h_created, h_requested,
                 h_submitted, h_delivered, h_stop_at, h_got, h_first,
                 h_attempts, h_last>>

\* The keyboard handler of the seat, for a seat that has a keyboard: it
\* sets or clears the focus and queues internal events.  Any focus and any
\* of the queued sequences below may come out of one notification; the
\* notifications that queue an event are counted by MaxFuel.
keyboard_handler(focus, queued) ==
    /\ pc = "dispatch"
    /\ keyboard
    /\ IF queued = <<>>
       THEN focus # keyboard_focus /\ UNCHANGED fuel
       ELSE fuel > 0 /\ fuel' = fuel - 1
    /\ keyboard_focus' = focus
    /\ events' = events \o queued
    /\ woken' = TRUE
    /\ UNCHANGED <<pc, running, LOOP_RUNNING, windows, screenlocks, new_windows,
                 new_screenlock, rescale_request, resize_request,
                 redraw_request, close_request, l_new_windows, l_locked,
                 l_rescale, l_resize, l_redraw, l_close, create_chan,
                 user_chan, user_events, event_chan, accesskit_chan,
                 accesskit_events, SCREENLOCK, locker_chan, session_lock,
                 keyboard, by_seat, by_pointer, next_dev, touch_state,
                 subcompositor, csd_fails, next_id, next_lock, h_tick,
                 h_closed, h_created, h_requested, h_submitted, h_delivered,
                 h_stop_at, h_got, h_first, h_attempts, h_last>>

\* a TouchState of the per-contact table: TouchState::new followed by
\* frame_touch
TouchState(window_id, frame_touch, scale_factor, position) ==
    [window_id |-> window_id, frame_touch |-> frame_touch, scale_factor |-> scale_factor,
     position |-> position, contact_geometry |-> None, orientation |-> None]

\* The per-contact table of the pointer registry, a map from the contact id
\* to its TouchState.  add_touch enters a contact, remove_touch takes it out
\* and get_mut_touch looks it up (Some(state), written <<state>>, or None).
add_touch(id, state) == MapInsert(touch_state, id, state)

remove_touch(id) == MapRemove(touch_state, id)

get_mut_touch(id) == IF id \in DOMAIN touch_state THEN <<touch_state[id]>> ELSE None

\* the scale factor TouchHandler::down reads: the one of the window, 1 for
\* a lock surface
touch_scale_factor(parent) ==
    IF parent \in DOMAIN windows THEN windows[parent].scale_factor ELSE 1

\* TouchHandler::down of touch device `dev` for contact `contact`.  `parent`
\* is the window or lock surface the surface belongs to, `deco` tells a
\* decoration sub-surface from the surface itself, `position` is the logical
\* position and `close` whether the frame answers the click with
\* FrameAction::Close.
touch_down(dev, parent, deco, contact, position, close) ==
    /\ pc = "dispatch"
    /\ fuel > 0
    /\ IF dev \in DOMAIN by_pointer /\ (parent \in DOMAIN windows \/ parent \in DOMAIN screenlocks)
       THEN LET scale_factor == touch_scale_factor(parent)
                physical == to_physical(position, scale_factor)
            IN  IF deco
                THEN IF parent \in DOMAIN windows
                     THEN /\ touch_state' = add_touch(contact,
                                               TouchState(parent, TRUE, scale_factor, physical))
                          /\ close_request' = IF windows[parent].window_frame /\ close
                                              THEN IndexSetInsert(close_request, parent)
                                              ELSE close_request
                          /\ UNCHANGED <<events, pc, h_tick>>
                     ELSE /\ touch_state' = add_touch(contact,
                                               TouchState(parent, FALSE, scale_factor, physical))
                          /\ pc' = "panic"
                          /\ h_tick' = Append(h_tick, Abort(parent, "called Option::unwrap on a None value"))
                          /\ UNCHANGED <<events, close_request>>
                ELSE /\ touch_state' = add_touch(contact,
                                          TouchState(parent, FALSE, scale_factor, physical))
                     /\ events' = Append(events, <<"Pointer", parent, "Down",
                                                   Payload(<<"Primary">>, physical, <<contact>>)>>)
                     /\ UNCHANGED <<close_request, pc, h_tick>>
       ELSE UNCHANGED <<touch_state, events, close_request, pc, h_tick>>
    /\ fuel' = fuel - 1
    /\ woken' = TRUE
    /\ UNCHANGED <<running, LOOP_RUNNING, windows, screenlocks, new_windows,
                 new_screenlock, rescale_request, resize_request,
                 redraw_request, l_new_windows, l_locked, l_rescale, l_resize,
                 l_redraw, l_close, create_chan, user_chan, user_events,
                 event_chan, accesskit_chan, accesskit_events, SCREENLOCK,
                 locker_chan, session_lock, keyboard_focus, keyboard, by_seat,
                 by_pointer, next_dev, subcompositor, csd_fails, next_id,
                 next_lock, h_closed, h_created, h_requested, h_submitted,
                 h_delivered, h_stop_at, h_got, h_first, h_attempts, h_last>>

\* TouchHandler::up: the entry of the contact is taken out of the table
\* whether the device is registered or not; a contact on the decoration goes
\* to the frame, another one sends Up with the stored PointerState
touch_up(dev, contact, close) ==
    /\ pc = "dispatch"
    /\ Len(events) < MaxQueued
    /\ touch_state' = remove_touch(contact)
    /\ IF dev \in DOMAIN by_pointer /\ get_mut_touch(contact) # None
       THEN LET entry == get_mut_touch(contact)[1]
            IN  IF entry.frame_touch
                THEN /\ close_request' =
                          IF entry.window_id \in DOMAIN windows
                             /\ windows[entry.window_id].window_frame /\ close
                          THEN IndexSetInsert(close_request, entry.window_id)
                          ELSE close_request
                     /\ UNCHANGED events
                ELSE /\ events' = Append(events, <<"Pointer", entry.window_id, "Up",
                                                   Payload(<<"Primary">>, entry.position, <<contact>>)>>)
                     /\ UNCHANGED close_request
       ELSE UNCHANGED <<events, close_request>>
    /\ woken' = TRUE
    /\ UNCHANGED <<pc, running, LOOP_RUNNING, windows, screenlocks, new_windows,
                 new_screenlock, rescale_request, resize_request,
                 redraw_request, l_new_windows, l_locked, l_rescale, l_resize,
                 l_redraw, l_close, create_chan, user_chan, user_events,
                 event_chan, accesskit_chan, accesskit_events, SCREENLOCK,
                 locker_chan, session_lock, keyboard_focus, keyboard, by_seat,
                 by_pointer, next_dev, subcompositor, csd_fails, next_id,
                 next_lock, fuel, h_tick, h_closed, h_created, h_requested,
                 h_submitted, h_delivered, h_stop_at, h_got, h_first,
                 h_attempts, h_last>>

\* a variant of touch_motion that sends a Move for a contact that has no
\* entry, to the surface that is no window and at scale factor 1
touch_motion_without_entry(dev, contact, position) ==
    /\ pc = "dispatch"
    /\ Len(events) < MaxQueued
    /\ events' = Append(events, <<"Pointer",
                                  IF get_mut_touch(contact) # None
                                  THEN get_mut_touch(contact)[1].window_id ELSE NullId,
                                  "Move", Payload(None, position, <<contact>>)>>)
    /\ woken' = TRUE
    /\ UNCHANGED <<pc, running, LOOP_RUNNING, windows, screenlocks, new_windows,
                 new_screenlock, rescale_request, resize_request,
                 redraw_request, close_request, l_new_windows, l_locked,
                 l_rescale, l_resize, l_redraw, l_close, create_chan,
                 user_chan, user_events, event_chan, accesskit_chan,
                 accesskit_events, SCREENLOCK, locker_chan, session_lock,
                 keyboard_focus, keyboard, by_seat, by_pointer, next_dev,
                 touch_state, subcompositor, csd_fails, next_id, next_lock,
                 fuel, h_tick, h_closed, h_created, h_requested, h_submitted,
                 h_delivered, h_stop_at, h_got, h_first, h_attempts, h_last>>

\* TouchHandler::motion: the position is converted with the scale factor
\* stored in the entry, stored in the entry and sent in a Move
touch_motion(dev, contact, position) ==
    /\ pc = "dispatch"
    /\ Len(events) < MaxQueued
    /\ IF dev \in DOMAIN by_pointer /\ get_mut_touch(contact) # None
       THEN LET entry == get_mut_touch(contact)[1]
                physical == to_physical(position, entry.scale_factor)
            IN  /\ touch_state' = [touch_state EXCEPT ![contact].position = physical]
                /\ events' = Append(events, <<"Pointer", entry.window_id, "Move",
                                              Payload(None, physical, <<contact>>)>>)
       ELSE UNCHANGED <<touch_state, events>>
    /\ woken' = TRUE
    /\ UNCHANGED <<pc, running, LOOP_RUNNING, windows, screenlocks, new_windows,
                 new_screenlock, rescale_request, resize_request,
                 redraw_request, close_request, l_new_windows, l_locked,
                 l_rescale, l_resize, l_redraw, l_close, create_chan,
                 user_chan, user_events, event_chan, accesskit_chan,
                 accesskit_events, SCREENLOCK, locker_chan, session_lock,
                 keyboard_focus, keyboard, by_seat, by_pointer, next_dev,
                 subcompositor, csd_fails, next_id, next_lock, fuel, h_tick,
                 h_closed, h_created, h_requested, h_submitted, h_delivered,
                 h_stop_at, h_got, h_first, h_attempts, h_last>>

\* TouchHandler::shape
touch_shape(contact, major, minor) ==
    /\ pc = "dispatch"
    /\ touch_state' = IF get_mut_touch(contact) # None
                      THEN [touch_state EXCEPT ![contact].contact_geometry = <<major, minor>>]
                      ELSE touch_state
    /\ woken' = TRUE
    /\ UNCHANGED <<pc, running, LOOP_RUNNING, windows, screenlocks, new_windows,
                 new_screenlock, rescale_request, resize_request,
                 redraw_request, close_request, l_new_windows, l_locked,
                 l_rescale, l_resize, l_redraw, l_close, create_chan,
                 user_chan, user_events, event_chan, events, accesskit_chan,
                 accesskit_events, SCREENLOCK, locker_chan, session_lock,
                 keyboard_focus, keyboard, by_seat, by_pointer, next_dev,
                 subcompositor, csd_fails, next_id, next_lock, fuel, h_tick,
                 h_closed, h_created, h_requested, h_submitted, h_delivered,
                 h_stop_at, h_got, h_first, h_attempts, h_last>>

\* TouchHandler::orientation
touch_orientation(contact, orientation) ==
    /\ pc = "dispatch"
    /\ touch_state' = IF get_mut_touch(contact) # None
                      THEN [touch_state EXCEPT ![contact].orientation = <<orientation>>]
                      ELSE touch_state
    /\ woken' = TRUE
    /\ UNCHANGED <<pc, running, LOOP_RUNNING, windows, screenlocks, new_windows,
                 new_screenlock, rescale_request, resize_request,
                 redraw_request, close_request, l_new_windows, l_locked,
                 l_rescale, l_resize, l_redraw, l_close, create_chan,
                 user_chan, user_events, event_chan, events, accesskit_chan,
                 accesskit_events, SCREENLOCK, locker_chan, session_lock,
                 keyboard_focus, keyboard, by_seat, by_pointer, next_dev,
                 subcompositor, csd_fails, next_id, next_lock, fuel, h_tick,
                 h_closed, h_created, h_requested, h_submitted, h_delivered,
                 h_stop_at, h_got, h_first, h_attempts, h_last>>

\* a variant of TouchCancels that sends one Cancel, for the first entry
TouchCancels_first_only(table) ==
    IF DOMAIN table = {} THEN <<>>
    ELSE LET c == CHOOSE x \in DOMAIN table : \A y \in DOMAIN table : x <= y
         IN  <<<<"Pointer", table[c].window_id, "Cancel", Payload(None, None, <<c>>)>>>>

\* the Cancel events of TouchHandler::cancel, one for every entry of the
\* table
TouchCancels(table) ==
    LET RECURSIVE Each(_)
        Each(S) == IF S = {} THEN <<>>
                   ELSE LET c == CHOOSE x \in S : \A y \in S : x <= y
                        IN  <<<<"Pointer", table[c].window_id, "Cancel",
                                Payload(None, None, <<c>>)>>>> \o Each(S \ {c})
    IN  Each(DOMAIN table)

\* TouchHandler::cancel: the table is drained
touch_cancel ==
    /\ pc = "dispatch"
    /\ Len(events) < MaxQueued
    /\ events' = events \o TouchCancels(touch_state)
    /\ touch_state' = <<>>
    /\ woken' = TRUE
    /\ UNCHANGED <<pc, running, LOOP_RUNNING, windows, screenlocks, new_windows,
                 new_screenlock, rescale_request, resize_request,
                 redraw_request, close_request, l_new_windows, l_locked,
                 l_rescale, l_resize, l_redraw, l_close, create_chan,
                 user_chan, user_events, event_chan, accesskit_chan,
                 accesskit_events, SCREENLOCK, locker_chan, session_lock,
                 keyboard_focus, keyboard, by_seat, by_pointer, next_dev,
                 subcompositor, csd_fails, next_id, next_lock, fuel, h_tick,
                 h_closed, h_created, h_requested, h_submitted, h_delivered,
                 h_stop_at, h_got, h_first, h_attempts, h_last>>

\* WindowsRegistry::insert_screenlock, called for a new lock surface (its
\* size is None until the surface is configured); it aborts on an identity
\* already present
insert_screenlock(size) ==
    /\ pc = "dispatch"
    /\ fuel > 0
    /\ next_lock < MaxLocks
    /\ LET id == -(next_lock + 1)
       IN  IF id \in DOMAIN screenlocks
           THEN /\ pc' = "panic"
                /\ h_tick' = Append(h_tick, Abort(id, "Failed to add window with the existing id"))
                /\ UNCHANGED screenlocks
           ELSE /\ screenlocks' = screenlocks @@ (id :> size)
                /\ UNCHANGED <<pc, h_tick>>
    /\ next_lock' = next_lock + 1
    /\ fuel' = fuel - 1
    /\ woken' = TRUE
    /\ UNCHANGED <<running, LOOP_RUNNING, windows, new_windows, new_screenlock,
                 rescale_request, resize_request, redraw_request,
                 close_request, l_new_windows, l_locked, l_rescale, l_resize,
                 l_redraw, l_close, create_chan, user_chan, user_events,
                 event_chan, events, accesskit_chan, accesskit_events,
                 SCREENLOCK, locker_chan, session_lock, keyboard_focus,
                 keyboard, by_seat, by_pointer, next_dev, touch_state,
                 subcompositor, csd_fails, next_id, h_closed, h_created,
                 h_requested, h_submitted, h_delivered, h_stop_at, h_got,
                 h_first, h_attempts, h_last>>

\* A lock surface is created for an output: its ScreenLock is inserted into
\* the registry and the surface is entered into new_screenlock, to be
\* announced to the application; the size is None until the surface has
\* been configured.
new_lock_surface(size) ==
    /\ pc = "dispatch"
    /\ fuel > 0
    /\ next_lock < MaxLocks
    /\ LET id == -(next_lock + 1)
       IN  IF id \in DOMAIN screenlocks
           THEN /\ pc' = "panic"
                /\ h_tick' = Append(h_tick, Abort(id, "Failed to add window with the existing id"))
                /\ UNCHANGED <<screenlocks, new_screenlock>>
           ELSE /\ screenlocks' = screenlocks @@ (id :> size)
                /\ new_screenlock' = Append(new_screenlock, <<id, size>>)
                /\ UNCHANGED <<pc, h_tick>>
    /\ next_lock' = next_lock + 1
    /\ fuel' = fuel - 1
    /\ woken' = TRUE
    /\ UNCHANGED <<running, LOOP_RUNNING, windows, new_windows, rescale_request,
                 resize_request, redraw_request, close_request, l_new_windows,
                 l_locked, l_rescale, l_resize, l_redraw, l_close,
                 create_chan, user_chan, user_events, event_chan, events,
                 accesskit_chan, accesskit_events, SCREENLOCK, locker_chan,
                 session_lock, keyboard_focus, keyboard, by_seat, by_pointer,
                 next_dev, touch_state, subcompositor, csd_fails, next_id,
                 h_closed, h_created, h_requested, h_submitted, h_delivered,
                 h_stop_at, h_got, h_first, h_attempts, h_last>>

\* WindowsRegistry::remove_screenlock
remove_screenlock(id) ==
    /\ pc = "dispatch"
    /\ fuel > 0
    /\ screenlocks' = [x \in DOMAIN screenlocks \ {id} |-> screenlocks[x]]
    /\ LET at == IndexOf(id, [i \in 1..Len(new_screenlock) |-> new_screenlock[i][1]])
       IN  IF at = 0
           THEN /\ close_request' = IndexSetInsert(close_request, id)
                /\ UNCHANGED new_screenlock
           ELSE /\ new_screenlock' = SwapRemove(new_screenlock, at)
                /\ UNCHANGED close_request
    /\ fuel' = fuel - 1
    /\ woken' = TRUE
    /\ UNCHANGED <<pc, running, LOOP_RUNNING, windows, new_windows,
                 rescale_request, resize_request, redraw_request,
                 l_new_windows, l_locked, l_rescale, l_resize, l_redraw,
                 l_close, create_chan, user_chan, user_events, event_chan,
                 events, accesskit_chan, accesskit_events, SCREENLOCK,
                 locker_chan, session_lock, keyboard_focus, keyboard, by_seat,
                 by_pointer, next_dev, touch_state, subcompositor, csd_fails,
                 next_id, next_lock, h_tick, h_closed, h_created, h_requested,
                 h_submitted, h_delivered, h_stop_at, h_got, h_first,
                 h_attempts, h_last>>

\* the locker channel's callback: WaylandState::lock asks the compositor for
\* the session lock, unless the state holds one already
recv_lock ==
    /\ pc = "dispatch"
    /\ locker_chan > 0
    /\ locker_chan' = locker_chan - 1
    /\ session_lock' = IF session_lock = "None" THEN "Requested" ELSE session_lock
    /\ woken' = TRUE
    /\ UNCHANGED <<pc, running, LOOP_RUNNING, windows, screenlocks, new_windows,
                 new_screenlock, rescale_request, resize_request,
                 redraw_request, close_request, l_new_windows, l_locked,
                 l_rescale, l_resize, l_redraw, l_close, create_chan,
                 user_chan, user_events, event_chan, events, accesskit_chan,
                 accesskit_events, SCREENLOCK, keyboard_focus, keyboard,
                 by_seat, by_pointer, next_dev, touch_state, subcompositor,
                 csd_fails, next_id, next_lock, fuel, h_tick, h_closed,
                 h_created, h_requested, h_submitted, h_delivered, h_stop_at,
                 h_got, h_first, h_attempts, h_last>>

\* The compositor grants the session lock: the lock becomes locked and
\* SessionLockHandler::locked is called, which is todo!(): the loop thread
\* aborts inside dispatch.
session_locked ==
    /\ pc = "dispatch"
    /\ session_lock = "Requested"
    /\ session_lock' = "Locked"
    /\ h_tick' = Append(h_tick, Abort(NullId, "not yet implemented"))
    /\ pc' = "panic"
    /\ UNCHANGED <<running, LOOP_RUNNING, windows, screenlocks, new_windows,
                 new_screenlock, rescale_request, resize_request,
                 redraw_request, close_request, l_new_windows, l_locked,
                 l_rescale, l_resize, l_redraw, l_close, create_chan,
                 user_chan, user_events, event_chan, events, accesskit_chan,
                 accesskit_events, SCREENLOCK, locker_chan, keyboard_focus,
                 keyboard, by_seat, by_pointer, next_dev, touch_state,
                 subcompositor, csd_fails, next_id, next_lock, fuel, woken,
                 h_closed, h_created, h_requested, h_submitted, h_delivered,
                 h_stop_at, h_got, h_first, h_attempts, h_last>>

\* run() called again by an application that has caught the abort of the
\* previous call: self.running = true, and the loop is entered
run_again ==
    /\ pc = "panic"
    /\ running' = TRUE
    /\ pc' = "dispatch"
    /\ woken' = FALSE
    /\ h_tick' = <<>>
    /\ UNCHANGED <<LOOP_RUNNING, windows, screenlocks, new_windows,
                 new_screenlock, rescale_request, resize_request,
                 redraw_request, close_request, l_new_windows, l_locked,
                 l_rescale, l_resize, l_redraw, l_close, create_chan,
                 user_chan, user_events, event_chan, events, accesskit_chan,
                 accesskit_events, SCREENLOCK, locker_chan, session_lock,
                 keyboard_focus, keyboard, by_seat, by_pointer, next_dev,
                 touch_state, subcompositor, csd_fails, next_id, next_lock,
                 fuel, h_closed, h_created, h_requested, h_submitted,
                 h_delivered, h_stop_at, h_got, h_first, h_attempts, h_last>>

\* ScreenLock::output_id: a lock surface is created per output, the k-th
\* for output k
output_id(id) == -id

\* WindowsRegistry::remove_screenlock_by_output_id: retain drops the entries
\* for which the closure returns false, which are those whose output differs
\* from output; `id` is the identity of one of them (the last the retain
\* visited), ObjectId::null() when none was dropped
remove_screenlock_by_output_id(output) ==
    /\ pc = "dispatch"
    /\ fuel > 0
    /\ LET dropped == {id \in DOMAIN screenlocks : output_id(id) # output}
       IN  /\ screenlocks' = [x \in DOMAIN screenlocks \ dropped |-> screenlocks[x]]
           /\ \E id \in (IF dropped = {} THEN {NullId} ELSE dropped) :
                 LET at == IndexOf(id, [i \in 1..Len(new_screenlock) |-> new_screenlock[i][1]])
                 IN  IF at = 0
                     THEN /\ close_request' = IndexSetInsert(close_request, id)
                          /\ UNCHANGED new_screenlock
                     ELSE /\ new_screenlock' = SwapRemove(new_screenlock, at)
                          /\ UNCHANGED close_request
    /\ fuel' = fuel - 1
    /\ woken' = TRUE
    /\ UNCHANGED <<pc, running, LOOP_RUNNING, windows, new_windows,
                 rescale_request, resize_request, redraw_request,
                 l_new_windows, l_locked, l_rescale, l_resize, l_redraw,
                 l_close, create_chan, user_chan, user_events, event_chan,
                 events, accesskit_chan, accesskit_events, SCREENLOCK,
                 locker_chan, session_lock, keyboard_focus, keyboard, by_seat,
                 by_pointer, next_dev, touch_state, subcompositor, csd_fails,
                 next_id, next_lock, h_tick, h_closed, h_created, h_requested,
                 h_submitted, h_delivered, h_stop_at, h_got, h_first,
                 h_attempts, h_last>>

\* EventLoop::dispatch returns Ok: it blocks until a source has had an event
dispatch_ok ==
    /\ pc = "dispatch"
    /\ woken
    /\ pc' = DrainPhases[1]
    /\ UNCHANGED <<running, LOOP_RUNNING, windows, screenlocks, new_windows,
                 new_screenlock, rescale_request, resize_request,
                 redraw_request, close_request, l_new_windows, l_locked,
                 l_rescale, l_resize, l_redraw, l_close, create_chan,
                 user_chan, user_events, event_chan, events, accesskit_chan,
                 accesskit_events, SCREENLOCK, locker_chan, session_lock,
                 keyboard_focus, keyboard, by_seat, by_pointer, next_dev,
                 touch_state, subcompositor, csd_fails, next_id, next_lock,
                 fuel, woken, h_tick, h_closed, h_created, h_requested,
                 h_submitted, h_delivered, h_stop_at, h_got, h_first,
                 h_attempts, h_last>>

\* a variant of the Err arm that clears the pending sets before it returns
dispatch_err_drains ==
    /\ pc = "dispatch"
    /\ pc' = "error"
    /\ rescale_request' = <<>>
    /\ resize_request' = <<>>
    /\ redraw_request' = <<>>
    /\ close_request' = <<>>
    /\ UNCHANGED <<running, LOOP_RUNNING, windows, screenlocks, new_windows,
                 new_screenlock, l_new_windows, l_locked, l_rescale, l_resize,
                 l_redraw, l_close, create_chan, user_chan, user_events,
                 event_chan, events, accesskit_chan, accesskit_events,
                 SCREENLOCK, locker_chan, session_lock, keyboard_focus,
                 keyboard, by_seat, by_pointer, next_dev, touch_state,
                 subcompositor, csd_fails, next_id, next_lock, fuel, woken,
                 h_tick, h_closed, h_created, h_requested, h_submitted,
                 h_delivered, h_stop_at, h_got, h_first, h_attempts, h_last>>

\* EventLoop::dispatch returns Err: run() logs and returns Err
dispatch_err ==
    /\ pc = "dispatch"
    /\ pc' = "error"
    /\ UNCHANGED <<running, LOOP_RUNNING, windows, screenlocks, new_windows,
                 new_screenlock, rescale_request, resize_request,
                 redraw_request, close_request, l_new_windows, l_locked,
                 l_rescale, l_resize, l_redraw, l_close, create_chan,
                 user_chan, user_events, event_chan, events, accesskit_chan,
                 accesskit_events, SCREENLOCK, locker_chan, session_lock,
                 keyboard_focus, keyboard, by_seat, by_pointer, next_dev,
                 touch_state, subcompositor, csd_fails, next_id, next_lock,
                 fuel, woken, h_tick, h_closed, h_created, h_requested,
                 h_submitted, h_delivered, h_stop_at, h_got, h_first,
                 h_attempts, h_last>>

\* ------------------------------------------------ the registry on its own
\* WindowsRegistry::remove_window: the identity it returns
remove_window_id(map, id) == map[id].core

\* a registry before run(): no window yet, the loop thread not started
InitRegistry ==
    /\ pc = "registry"
    /\ running = FALSE
    /\ LOOP_RUNNING = TRUE
    /\ SCREENLOCK = FALSE
    /\ locker_chan = 0
    /\ session_lock = "None"
    /\ windows = <<>>
    /\ screenlocks = <<>>
    /\ new_windows = <<>>
    /\ new_screenlock = <<>>
    /\ rescale_request = <<>>
    /\ resize_request = <<>>
    /\ redraw_request = <<>>
    /\ close_request = <<>>
    /\ l_new_windows = <<>>
    /\ l_locked = <<>>
    /\ l_rescale = <<>>
    /\ l_resize = <<>>
    /\ l_redraw = <<>>
    /\ l_close = <<>>
    /\ create_chan = <<>>
    /\ user_chan = <<>>
    /\ user_events = <<>>
    /\ event_chan = <<>>
    /\ events = <<>>
    /\ accesskit_chan = <<>>
    /\ accesskit_events = <<>>
    /\ keyboard_focus = None
    /\ keyboard = FALSE
    /\ by_seat = <<>>
    /\ by_pointer = <<>>
    /\ next_dev = 0
    /\ touch_state = <<>>
    /\ subcompositor = TRUE
    /\ csd_fails = TRUE
    /\ next_id = 1
    /\ next_lock = 0
    /\ fuel = MaxFuel
    /\ woken = FALSE
    /\ h_tick = <<>>
    /\ h_closed = <<>>
    /\ h_created = <<>>
    /\ h_requested = 0
    /\ h_submitted = <<>>
    /\ h_delivered = <<>>
    /\ h_stop_at = "never"
    /\ h_got = {}
    /\ h_first = None
    /\ h_attempts = <<>>
    /\ h_last = <<>>

\* WindowsRegistry::insert_window(id, window), the window's core naming id
registry_insert(id) ==
    /\ pc = "registry"
    /\ fuel > 0
    /\ LET window == WithCore(id, WaylandWindow_new(DefaultAttributes))
       IN  IF insert_window_aborts(id)
           THEN /\ windows' = MapInsert(windows, id, window)
                /\ h_tick' = Append(h_tick, Abort(id, "Failed to add window with the existing id"))
                /\ pc' = "panic"
           ELSE /\ windows' = insert_window(id, window)
                /\ h_tick' = Append(h_tick, Cb("insert_window", id, None))
                /\ UNCHANGED pc
    /\ fuel' = fuel - 1
    /\ UNCHANGED <<running, LOOP_RUNNING, screenlocks, new_windows,
                 new_screenlock, rescale_request, resize_request,
                 redraw_request, close_request, l_new_windows, l_locked,
                 l_rescale, l_resize, l_redraw, l_close, create_chan,
                 user_chan, user_events, event_chan, events, accesskit_chan,
                 accesskit_events, SCREENLOCK, locker_chan, session_lock,
                 keyboard_focus, keyboard, by_seat, by_pointer, next_dev,
                 touch_state, subcompositor, csd_fails, next_id, next_lock,
                 woken, h_closed, h_created, h_requested, h_submitted,
                 h_delivered, h_stop_at, h_got, h_first, h_attempts, h_last>>

\* WindowsRegistry::remove_window(id)
registry_remove(id) ==
    /\ pc = "registry"
    /\ fuel > 0
    /\ IF remove_window_aborts(windows, id)
       THEN /\ h_tick' = Append(h_tick, Abort(id, "Failed to remove window"))
            /\ pc' = "panic"
            /\ UNCHANGED windows
       ELSE /\ windows' = remove_window(windows, id)
            /\ h_tick' = Append(h_tick, Cb("remove_window", id, <<remove_window_id(windows, id)>>))
            /\ UNCHANGED pc
    /\ fuel' = fuel - 1
    /\ UNCHANGED <<running, LOOP_RUNNING, screenlocks, new_windows,
                 new_screenlock, rescale_request, resize_request,
                 redraw_request, close_request, l_new_windows, l_locked,
                 l_rescale, l_resize, l_redraw, l_close, create_chan,
                 user_chan, user_events, event_chan, events, accesskit_chan,
                 accesskit_events, SCREENLOCK, locker_chan, session_lock,
                 keyboard_focus, keyboard, by_seat, by_pointer, next_dev,
                 touch_state, subcompositor, csd_fails, next_id, next_lock,
                 woken, h_closed, h_created, h_requested, h_submitted,
                 h_delivered, h_stop_at, h_got, h_first, h_attempts, h_last>>
\* ------------------------------------------------------- run: one tick
\* mem::take of the pending collections (event_loop.rs, top of the Ok arm)
take ==
    /\ pc = "take"
    /\ l_new_windows' = new_windows
    /\ l_locked' = new_screenlock
    /\ l_rescale' = rescale_request
    /\ l_resize' = resize_request
    /\ l_redraw' = redraw_request
    /\ l_close' = close_request
    /\ new_windows' = <<>>
    /\ new_screenlock' = <<>>
    /\ rescale_request' = <<>>
    /\ resize_request' = <<>>
    /\ redraw_request' = <<>>
    /\ close_request' = <<>>
    /\ pc' = PhaseAfter(pc)
    /\ UNCHANGED <<running, LOOP_RUNNING, windows, screenlocks, create_chan,
                 user_chan, user_events, event_chan, events, accesskit_chan,
                 accesskit_events, SCREENLOCK, locker_chan, session_lock,
                 keyboard_focus, keyboard, by_seat, by_pointer, next_dev,
                 touch_state, subcompositor, csd_fails, next_id, next_lock,
                 fuel, woken, h_tick, h_closed, h_created, h_requested,
                 h_submitted, h_delivered, h_stop_at, h_got, h_first,
                 h_attempts, h_last>>

\* for window in new_windows { app.create_window(window) }
deliver_new_windows ==
    /\ pc = "new_windows"
    /\ h_tick' = h_tick \o [i \in 1..Len(l_new_windows) |-> Cb("create_window", l_new_windows[i], None)]
    /\ h_created' = h_created \o l_new_windows
    /\ l_new_windows' = <<>>
    /\ pc' = PhaseAfter(pc)
    /\ UNCHANGED <<running, LOOP_RUNNING, windows, screenlocks, new_windows,
                 new_screenlock, rescale_request, resize_request,
                 redraw_request, close_request, l_locked, l_rescale, l_resize,
                 l_redraw, l_close, create_chan, user_chan, user_events,
                 event_chan, events, accesskit_chan, accesskit_events,
                 SCREENLOCK, locker_chan, session_lock, keyboard_focus,
                 keyboard, by_seat, by_pointer, next_dev, touch_state,
                 subcompositor, csd_fails, next_id, next_lock, fuel, woken,
                 h_closed, h_requested, h_submitted, h_delivered, h_stop_at,
                 h_got, h_first, h_attempts, h_last>>

\* The loop over the taken new_screenlock map.  A surface with a size is
\* announced; one without is put back with IndexMap::insert, whose result is
\* unwrapped: the insert returns None, and the unwrap aborts, unless the map
\* already holds the key.
RECURSIVE LockedLoop(_, _)
LockedLoop(todo, acc) ==
    IF todo = <<>> \/ acc.abort THEN acc
    ELSE LET id == Head(todo)[1]
             size == Head(todo)[2]
             held == \E i \in 1..Len(acc.map) : acc.map[i][1] = id
         IN  LockedLoop(Tail(todo),
                IF size # None
                THEN [acc EXCEPT !.log = Append(@, Cb("create_screenlock", id, size))]
                ELSE IF held
                THEN [acc EXCEPT !.map = [i \in 1..Len(@) |-> IF @[i][1] = id THEN <<id, None>> ELSE @[i]]]
                ELSE [acc EXCEPT !.map = Append(@, <<id, None>>), !.abort = TRUE])

deliver_new_screenlocks ==
    /\ pc = "locked"
    /\ LET r == LockedLoop(l_locked, [log |-> <<>>, map |-> new_screenlock, abort |-> FALSE])
       IN  /\ h_tick' = h_tick \o r.log
                         \o (IF r.abort
                             THEN <<Abort(r.map[Len(r.map)][1], "called Option::unwrap on a None value")>>
                             ELSE <<>>)
           /\ new_screenlock' = r.map
           /\ pc' = IF r.abort THEN "panic" ELSE PhaseAfter(pc)
    /\ l_locked' = <<>>
    /\ UNCHANGED <<running, LOOP_RUNNING, windows, screenlocks, new_windows,
                 rescale_request, resize_request, redraw_request,
                 close_request, l_new_windows, l_rescale, l_resize, l_redraw,
                 l_close, create_chan, user_chan, user_events, event_chan,
                 events, accesskit_chan, accesskit_events, SCREENLOCK,
                 locker_chan, session_lock, keyboard_focus, keyboard, by_seat,
                 by_pointer, next_dev, touch_state, subcompositor, csd_fails,
                 next_id, next_lock, fuel, woken, h_closed, h_created,
                 h_requested, h_submitted, h_delivered, h_stop_at, h_got,
                 h_first, h_attempts, h_last>>

\* while let Some(event) = events.pop_front() { app.user_events_handle(event) }
deliver_user_events ==
    /\ pc = "user_events"
    /\ h_tick' = h_tick \o [i \in 1..Len(user_events) |-> Cb("user_events_handle", NullId, <<user_events[i]>>)]
    /\ h_delivered' = h_delivered \o user_events
    /\ user_events' = <<>>
    /\ pc' = PhaseAfter(pc)
    /\ UNCHANGED <<running, LOOP_RUNNING, windows, screenlocks, new_windows,
                 new_screenlock, rescale_request, resize_request,
                 redraw_request, close_request, l_new_windows, l_locked,
                 l_rescale, l_resize, l_redraw, l_close, create_chan,
                 user_chan, event_chan, events, accesskit_chan,
                 accesskit_events, SCREENLOCK, locker_chan, session_lock,
                 keyboard_focus, keyboard, by_seat, by_pointer, next_dev,
                 touch_state, subcompositor, csd_fails, next_id, next_lock,
                 fuel, woken, h_closed, h_created, h_requested, h_submitted,
                 h_stop_at, h_got, h_first, h_attempts, h_last>>

\* IndexSet::insert of every element of xs, in order
RECURSIVE InsertAll(_, _)
InsertAll(s, xs) == IF xs = <<>> THEN s ELSE InsertAll(IndexSetInsert(s, Head(xs)), Tail(xs))

\* the identities of a taken pending set that the rescale loop acts on
RescaleTargets(ids) == SelectSeq(ids, LAMBDA id : id \in DOMAIN windows)

\* for object_id in rescale_req.iter() { ... }
drain_rescale ==
    /\ pc = "rescale"
    /\ LET hit == RescaleTargets(l_rescale)
       IN  /\ h_tick' = h_tick \o [i \in 1..Len(hit) |->
                                    Cb("rescale_handle", hit[i], <<windows[hit[i]].scale_factor>>)]
           /\ l_resize' = InsertAll(l_resize, hit)
    /\ pc' = PhaseAfter(pc)
    /\ UNCHANGED <<running, LOOP_RUNNING, windows, screenlocks, new_windows,
                 new_screenlock, rescale_request, resize_request,
                 redraw_request, close_request, l_new_windows, l_locked,
                 l_rescale, l_redraw, l_close, create_chan, user_chan,
                 user_events, event_chan, events, accesskit_chan,
                 accesskit_events, SCREENLOCK, locker_chan, session_lock,
                 keyboard_focus, keyboard, by_seat, by_pointer, next_dev,
                 touch_state, subcompositor, csd_fails, next_id, next_lock,
                 fuel, woken, h_closed, h_created, h_requested, h_submitted,
                 h_delivered, h_stop_at, h_got, h_first, h_attempts, h_last>>

\* The loop over resize_req: a window is notified with its physical size; an
\* identity that is a lock surface is notified with its size unwrapped, which
\* aborts when the size is None; any other identity is skipped.
RECURSIVE ResizeLoop(_, _)
ResizeLoop(todo, acc) ==
    IF todo = <<>> \/ acc.abort THEN acc
    ELSE LET id == Head(todo)
         IN  ResizeLoop(Tail(todo),
                IF id \in DOMAIN windows
                THEN [acc EXCEPT !.log = Append(@, Cb("resize_handle", id,
                                     logical_to_physical_rounded(windows[id].size, windows[id].scale_factor))),
                                 !.redraw = IndexSetInsert(@, id)]
                ELSE IF id \in DOMAIN screenlocks
                THEN IF screenlocks[id] = None
                     THEN [acc EXCEPT !.abort = TRUE,
                                      !.log = Append(@, Abort(id, "called Option::unwrap on a None value"))]
                     ELSE [acc EXCEPT !.log = Append(@, Cb("resize_handle", id,
                                     logical_to_physical_rounded(screenlocks[id], 1))),
                                      !.redraw = IndexSetInsert(@, id)]
                ELSE acc)

drain_resize ==
    /\ pc = "resize"
    /\ LET r == ResizeLoop(l_resize, [log |-> <<>>, redraw |-> l_redraw, abort |-> FALSE])
       IN  /\ h_tick' = h_tick \o r.log
           /\ l_redraw' = r.redraw
           /\ pc' = IF r.abort THEN "panic" ELSE PhaseAfter(pc)
    /\ UNCHANGED <<running, LOOP_RUNNING, windows, screenlocks, new_windows,
                 new_screenlock, rescale_request, resize_request,
                 redraw_request, close_request, l_new_windows, l_locked,
                 l_rescale, l_resize, l_close, create_chan, user_chan,
                 user_events, event_chan, events, accesskit_chan,
                 accesskit_events, SCREENLOCK, locker_chan, session_lock,
                 keyboard_focus, keyboard, by_seat, by_pointer, next_dev,
                 touch_state, subcompositor, csd_fails, next_id, next_lock,
                 fuel, woken, h_closed, h_created, h_requested, h_submitted,
                 h_delivered, h_stop_at, h_got, h_first, h_attempts, h_last>>

\* app.user_signals_handle(&mut self.state.windows): the application may ask
\* a window for a redraw (WaylandWindow::redraw_request sends
\* Events::RedrawRequest on the event channel)
user_signals(asked) ==
    /\ pc = "user_signals"
    /\ h_tick' = Append(h_tick, Cb("user_signals_handle", NullId, None))
    /\ IF asked = None
       THEN UNCHANGED <<event_chan, fuel>>
       ELSE /\ fuel > 0
            /\ asked[1] \in DOMAIN windows
            /\ event_chan' = Append(event_chan, <<"RedrawRequest", asked[1], "">>)
            /\ fuel' = fuel - 1
    /\ pc' = PhaseAfter(pc)
    /\ UNCHANGED <<running, LOOP_RUNNING, windows, screenlocks, new_windows,
                 new_screenlock, rescale_request, resize_request,
                 redraw_request, close_request, l_new_windows, l_locked,
                 l_rescale, l_resize, l_redraw, l_close, create_chan,
                 user_chan, user_events, events, accesskit_chan,
                 accesskit_events, SCREENLOCK, locker_chan, session_lock,
                 keyboard_focus, keyboard, by_seat, by_pointer, next_dev,
                 touch_state, subcompositor, csd_fails, next_id, next_lock,
                 woken, h_closed, h_created, h_requested, h_submitted,
                 h_delivered, h_stop_at, h_got, h_first, h_attempts, h_last>>

\* the callback an accessibility event is dispatched to
AccesskitCallback(kind) ==
    IF kind = "AccessabilityActivate" THEN "accesskit_activate_handle"
    ELSE IF kind = "AccessibilityDeactivate" THEN "accesskit_deactivate_handle"
    ELSE "accesskit_action_handle"

\* while let Some(event) = self.state.accesskit_events.pop_front() { ... }
drain_accesskit ==
    /\ pc = "accesskit"
    /\ LET hit == SelectSeq(accesskit_events, LAMBDA e : e[2] \in DOMAIN windows)
       IN  h_tick' = h_tick \o [i \in 1..Len(hit) |-> Cb(AccesskitCallback(hit[i][1]), hit[i][2], None)]
    /\ accesskit_events' = <<>>
    /\ pc' = PhaseAfter(pc)
    /\ UNCHANGED <<running, LOOP_RUNNING, windows, screenlocks, new_windows,
                 new_screenlock, rescale_request, resize_request,
                 redraw_request, close_request, l_new_windows, l_locked,
                 l_rescale, l_resize, l_redraw, l_close, create_chan,
                 user_chan, user_events, event_chan, events, accesskit_chan,
                 SCREENLOCK, locker_chan, session_lock, keyboard_focus,
                 keyboard, by_seat, by_pointer, next_dev, touch_state,
                 subcompositor, csd_fails, next_id, next_lock, fuel, woken,
                 h_closed, h_created, h_requested, h_submitted, h_delivered,
                 h_stop_at, h_got, h_first, h_attempts, h_last>>

\* a variant of the loop over the internal events that hands a keyboard
\* event to the first window of the registry when no window has the focus
RECURSIVE EventsLoop_keyboard_to_any(_, _)
EventsLoop_keyboard_to_any(todo, acc) ==
    IF todo = <<>> THEN acc
    ELSE LET kind == Head(todo)[1]
             id == Head(todo)[2]
             target == IF keyboard_focus # None THEN keyboard_focus[1]
                       ELSE IF DOMAIN windows # {} THEN CHOOSE w \in DOMAIN windows : \A v \in DOMAIN windows : w <= v
                       ELSE NullId
         IN  EventsLoop_keyboard_to_any(Tail(todo),
                IF kind = "RedrawRequest"
                THEN [acc EXCEPT !.redraw = IndexSetInsert(@, id)]
                ELSE IF kind = "Keyboard"
                THEN [acc EXCEPT !.redraw = IndexSetInsert(@, target),
                                 !.log = Append(@, Cb("keyboard_handle", target, None))]
                ELSE IF kind = "Pointer"
                THEN [acc EXCEPT !.log = Append(@, Cb("pointer_handle", id, None))]
                ELSE [acc EXCEPT !.log = Append(@, Cb("focus_handle", id, None))])

\* The loop over the internal event queue: a redraw request and a keyboard
\* event insert into the registry's redraw_request (not into the local
\* redraw_req that this tick draws from).
RECURSIVE EventsLoop(_, _)
EventsLoop(todo, acc) ==
    IF todo = <<>> THEN acc
    ELSE LET kind == Head(todo)[1]
             id == Head(todo)[2]
         IN  EventsLoop(Tail(todo),
                IF kind = "RedrawRequest"
                THEN [acc EXCEPT !.redraw = IndexSetInsert(@, id)]
                ELSE IF kind = "Keyboard"
                THEN IF keyboard_focus # None
                     THEN [acc EXCEPT !.redraw = IndexSetInsert(@, keyboard_focus[1]),
                                      !.log = Append(@, Cb("keyboard_handle", keyboard_focus[1], None))]
                     ELSE acc
                ELSE IF kind = "Pointer"
                THEN [acc EXCEPT !.log = Append(@, Cb("pointer_handle", id, None))]
                ELSE [acc EXCEPT !.log = Append(@, Cb("focus_handle", id, None))])

\* a variant of the loop over the internal events that handles the event at
\* the front only and leaves the others queued
drain_events_front_only ==
    /\ pc = "events"
    /\ LET r == EventsLoop(SubSeq(events, 1, Min(1, Len(events))), [log |-> <<>>, redraw |-> redraw_request])
       IN  /\ h_tick' = h_tick \o r.log
           /\ redraw_request' = r.redraw
    /\ events' = SubSeq(events, 2, Len(events))
    /\ pc' = PhaseAfter(pc)
    /\ UNCHANGED <<running, LOOP_RUNNING, windows, screenlocks, new_windows,
                 new_screenlock, rescale_request, resize_request,
                 close_request, l_new_windows, l_locked, l_rescale, l_resize,
                 l_redraw, l_close, create_chan, user_chan, user_events,
                 event_chan, accesskit_chan, accesskit_events, SCREENLOCK,
                 locker_chan, session_lock, keyboard_focus, keyboard, by_seat,
                 by_pointer, next_dev, touch_state, subcompositor, csd_fails,
                 next_id, next_lock, fuel, woken, h_closed, h_created,
                 h_requested, h_submitted, h_delivered, h_stop_at, h_got,
                 h_first, h_attempts, h_last>>

drain_events ==
    /\ pc = "events"
    /\ LET r == EventsLoop(events, [log |-> <<>>, redraw |-> redraw_request])
       IN  /\ h_tick' = h_tick \o r.log
           /\ redraw_request' = r.redraw
    /\ events' = <<>>
    /\ pc' = PhaseAfter(pc)
    /\ UNCHANGED <<running, LOOP_RUNNING, windows, screenlocks, new_windows,
                 new_screenlock, rescale_request, resize_request,
                 close_request, l_new_windows, l_locked, l_rescale, l_resize,
                 l_redraw, l_close, create_chan, user_chan, user_events,
                 event_chan, accesskit_chan, accesskit_events, SCREENLOCK,
                 locker_chan, session_lock, keyboard_focus, keyboard, by_seat,
                 by_pointer, next_dev, touch_state, subcompositor, csd_fails,
                 next_id, next_lock, fuel, woken, h_closed, h_created,
                 h_requested, h_submitted, h_delivered, h_stop_at, h_got,
                 h_first, h_attempts, h_last>>

\* a variant of RedrawTargets without the lookup in the registry
RedrawTargets_unchecked(ids) == ids

\* a variant of RedrawTargets that draws nothing once stop() has been called
RedrawTargets_until_stop(ids) ==
    IF LOOP_RUNNING THEN SelectSeq(ids, LAMBDA id : id \in DOMAIN windows) ELSE <<>>

\* the identities of the local redraw set that are drawn
RedrawTargets(ids) == SelectSeq(ids, LAMBDA id : id \in DOMAIN windows)

\* for object_id in redraw_req { ... refresh_frame(); app.draw_handle(..) }
drain_redraw ==
    /\ pc = "redraw"
    /\ LET hit == RedrawTargets(l_redraw)
       IN  h_tick' = h_tick \o [i \in 1..Len(hit) |-> Cb("draw_handle", hit[i], None)]
    /\ pc' = PhaseAfter(pc)
    /\ UNCHANGED <<running, LOOP_RUNNING, windows, screenlocks, new_windows,
                 new_screenlock, rescale_request, resize_request,
                 redraw_request, close_request, l_new_windows, l_locked,
                 l_rescale, l_resize, l_redraw, l_close, create_chan,
                 user_chan, user_events, event_chan, events, accesskit_chan,
                 accesskit_events, SCREENLOCK, locker_chan, session_lock,
                 keyboard_focus, keyboard, by_seat, by_pointer, next_dev,
                 touch_state, subcompositor, csd_fails, next_id, next_lock,
                 fuel, woken, h_closed, h_created, h_requested, h_submitted,
                 h_delivered, h_stop_at, h_got, h_first, h_attempts, h_last>>

\* for id in close_req.iter() { remove_window(id); app.close_handle(id) }
RECURSIVE CloseLoop(_, _)
CloseLoop(todo, acc) ==
    IF todo = <<>> \/ acc.abort THEN acc
    ELSE LET id == Head(todo)
         IN  CloseLoop(Tail(todo),
                IF remove_window_aborts(acc.map, id)
                THEN [acc EXCEPT !.abort = TRUE,
                                 !.log = Append(@, Abort(id, "Failed to remove window"))]
                ELSE [acc EXCEPT !.map = remove_window(@, id),
                                 !.log = Append(@, Cb("close_handle", id, None)),
                                 !.closed = Append(@, id)])

\* the close loop; the locals of the Ok arm are dropped after it
drain_close ==
    /\ pc = "close"
    /\ LET r == CloseLoop(l_close, [map |-> windows, log |-> <<>>, closed |-> <<>>, abort |-> FALSE])
       IN  /\ windows' = r.map
           /\ h_tick' = h_tick \o r.log
           /\ h_closed' = h_closed \o r.closed
           /\ pc' = IF r.abort THEN "panic" ELSE PhaseAfter(pc)
    /\ l_rescale' = <<>>
    /\ l_resize' = <<>>
    /\ l_redraw' = <<>>
    /\ l_close' = <<>>
    /\ UNCHANGED <<running, LOOP_RUNNING, screenlocks, new_windows,
                 new_screenlock, rescale_request, resize_request,
                 redraw_request, close_request, l_new_windows, l_locked,
                 create_chan, user_chan, user_events, event_chan, events,
                 accesskit_chan, accesskit_events, SCREENLOCK, locker_chan,
                 session_lock, keyboard_focus, keyboard, by_seat, by_pointer,
                 next_dev, touch_state, subcompositor, csd_fails, next_id,
                 next_lock, fuel, woken, h_created, h_requested, h_submitted,
                 h_delivered, h_stop_at, h_got, h_first, h_attempts, h_last>>

\* the condition under which run() leaves its loop
loop_exits == is_empty \/ ~LOOP_RUNNING

\* the condition under which the end of the loop body calls
\* WaylandState::unlock
unlock_due == session_lock = "Locked" /\ SCREENLOCK

\* the end of the loop body: the session lock is released when unlock_due,
\* the running flag is cleared when the registry is empty or the stop flag is
\* raised, and `while self.running` is evaluated
boundary ==
    /\ pc = "boundary"
    /\ session_lock' = IF unlock_due THEN "None" ELSE session_lock
    /\ IF loop_exits
       THEN /\ running' = FALSE
            /\ pc' = "stopped"
            /\ UNCHANGED <<woken, h_tick, h_got, h_first>>
       ELSE /\ pc' = "dispatch"
            /\ woken' = FALSE
            /\ h_tick' = <<>>
            /\ h_got' = {}
            /\ h_first' = None
            /\ UNCHANGED running
    /\ UNCHANGED <<LOOP_RUNNING, windows, screenlocks, new_windows,
                 new_screenlock, rescale_request, resize_request,
                 redraw_request, close_request, l_new_windows, l_locked,
                 l_rescale, l_resize, l_redraw, l_close, create_chan,
                 user_chan, user_events, event_chan, events, accesskit_chan,
                 accesskit_events, SCREENLOCK, locker_chan, keyboard_focus,
                 keyboard, by_seat, by_pointer, next_dev, touch_state,
                 subcompositor, csd_fails, next_id, next_lock, fuel, h_closed,
                 h_created, h_requested, h_submitted, h_delivered, h_stop_at,
                 h_attempts, h_last>>
\* ------------------------------------------------------------ environment
\* largest scale factor the compositor announces
MaxScale == 2

Scales == 1..MaxScale

\* a WindowConfigure as the handler reads it
Configure(mode, new_size, state, bounds) ==
    [decoration_mode |-> mode, new_size |-> new_size, state |-> state, suggested_bounds |-> bounds]

\* the configures the compositor sends in the event-loop specification: a
\* maximize at no suggested size and a new size
LoopConfigures ==
    { Configure("Server", <<0, 0>>, {"MAXIMIZED"}, None),
      Configure("Server", <<800, 600>>, {}, None) }

\* the configures of the configure specification: every combination of a
\* decoration mode, a suggested size, a set of state bits and suggested bounds
StateSets == SUBSET {"MAXIMIZED", "ACTIVATED", "SUSPENDED"}

AllConfigures ==
    { Configure(mode, size, state, bounds) :
        mode \in {"Server", "Client"},
        size \in {<<0, 0>>, <<256, 256>>, <<256, 0>>},
        state \in StateSets,
        bounds \in {None, <<200, 0>>} }

\* the configures of the size specification: a suggested size above or
\* below the initial size or none, with or without a maximize
SizeConfigures ==
    { Configure(mode, size, state, None) :
        mode \in {"Server", "Client"},
        size \in {<<0, 0>>, <<800, 600>>, <<1, 1>>},
        state \in {{}, {"MAXIMIZED"}} }

\* the minimum sizes the application sets
MinSizes == {None, <<300, 300>>}

\* the logical position of the presses where positions are not looked at
PressPosition == <<3, 5>>

AccesskitKinds == {"AccessabilityActivate", "AccessibilityDeactivate", "Action"}

\* ------------------------------------------------------------------- Next
\* the loop thread outside the protocol handlers
LoopSteps ==
    \/ run_start
    \/ create_window
    \/ dispatch_ok
    \/ dispatch_err
    \/ take
    \/ deliver_new_windows
    \/ deliver_new_screenlocks
    \/ deliver_user_events
    \/ drain_rescale
    \/ drain_resize
    \/ \E asked \in {None} \cup {<<w>> : w \in DOMAIN windows} : user_signals(asked)
    \/ recv_event
    \/ drain_accesskit
    \/ drain_events
    \/ drain_redraw
    \/ drain_close
    \/ boundary

\* The event loop with the compositor's notifications about windows and lock
\* surfaces.  A frame callback may arrive for any surface, a closed window, a
\* lock surface and a surface that is no window (NullId) included; a
\* configure and a close request arrive for a window of the registry, whose
\* toplevel is alive.
Next ==
    \/ stop
    \/ request_new_window(DefaultAttributes)
    \/ LoopSteps
    \/ \E id \in DOMAIN windows \cup {NullId}, f \in Scales : scale_factor_changed(id, f)
    \/ \E id \in AllSurfaces \cup DOMAIN screenlocks \cup {NullId} : frame(id)
    \/ \E id \in DOMAIN windows : request_close(id)
    \/ \E id \in DOMAIN windows, cfg \in LoopConfigures : configure(id, cfg, TRUE, 0)
    \/ insert_screenlock(None)
    \/ \E id \in DOMAIN screenlocks : remove_screenlock(id)

Spec == Init /\ [][Next]_vars

\* The event loop with the requests of the application's threads and the
\* input of the windows: user events, accessibility requests and pointer
\* events, next to a scale change, a frame callback and a close.
NextInput ==
    \/ request_new_window(DefaultAttributes)
    \/ send_event(Len(h_submitted) + 1)
    \/ LoopSteps
    \/ recv_user_event
    \/ recv_accesskit_event
    \/ \E id \in DOMAIN windows, kind \in AccesskitKinds : accesskit_send(kind, id)
    \/ \E id \in DOMAIN windows : scale_factor_changed(id, MaxScale)
    \/ \E id \in DOMAIN windows : frame(id)
    \/ \E id \in DOMAIN windows : request_close(id)
    \/ \E id \in DOMAIN windows, deco \in BOOLEAN :
          pointer_frame(id, deco, "Press", 272, PressPosition, TRUE)

SpecInput == Init /\ [][NextInput]_vars

\* The event loop with one window and the configures of AllConfigures, the
\* construction of the decoration frame succeeding or failing.
NextConfigure ==
    \/ request_new_window(DefaultAttributes) /\ h_requested = 0
    \/ LoopSteps
    \/ \E id \in DOMAIN windows, cfg \in AllConfigures, frame_ok \in BOOLEAN, b \in 0..MaxBorder :
          configure(id, cfg, frame_ok, b)
    \/ \E id \in DOMAIN windows : scale_factor_changed(id, MaxScale)

SpecConfigure == Init /\ [][NextConfigure]_vars

\* The event loop with one window, the configures of SizeConfigures, the
\* construction of the decoration frame succeeding or failing, and the
\* application setting the minimum size of the window.
NextSizes ==
    \/ request_new_window(DefaultAttributes) /\ h_requested = 0
    \/ LoopSteps
    \/ \E id \in DOMAIN windows, cfg \in SizeConfigures, frame_ok \in BOOLEAN, b \in 0..MaxBorder :
          configure(id, cfg, frame_ok, b)
    \/ \E id \in DOMAIN windows : frame(id)
    \/ \E id \in DOMAIN windows, size \in MinSizes, b \in 0..MaxBorder : set_min_surface_size(id, size, b)

SpecSizes == Init /\ [][NextSizes]_vars

\* the capabilities a seat announces
Capabilities == {"Pointer", "Touch", "Keyboard"}

Seats == 1..MaxSeats

\* The event loop with the capabilities of the seats coming and going.
NextSeat ==
    \/ request_new_window(DefaultAttributes)
    \/ LoopSteps
    \/ \E seat \in Seats, capability \in Capabilities, ok \in BOOLEAN : new_capability(seat, capability, ok)
    \/ \E seat \in Seats, capability \in Capabilities : remove_capability(seat, capability)

SpecSeat == Init /\ [][NextSeat]_vars

\* the raw button codes of a press: the left button and the middle one
Buttons == {272, 274}

\* touch contacts in progress at a time
MaxContacts == 2

\* The event loop with one window that is given a decoration frame, and
\* presses and touches on the window and on its decoration.
NextDecoration ==
    \/ request_new_window(DefaultAttributes) /\ h_requested = 0
    \/ LoopSteps
    \/ \E id \in DOMAIN windows, frame_ok \in BOOLEAN :
          configure(id, Configure("Client", <<0, 0>>, {}, None), frame_ok, 0)
    \/ \E seat \in Seats, ok \in BOOLEAN : new_capability(seat, "Touch", ok)
    \/ \E id \in DOMAIN windows, deco \in BOOLEAN, kind \in {"Press", "Motion"}, button \in Buttons,
           close \in BOOLEAN : pointer_frame(id, deco, kind, button, PressPosition, close)
    \/ \E dev \in 1..MaxDevices, id \in DOMAIN windows, deco \in BOOLEAN, contact \in 1..MaxContacts,
           close \in BOOLEAN : touch_down(dev, id, deco, contact, PressPosition, close)

SpecDecoration == Init /\ [][NextDecoration]_vars

\* the identities the registry is exercised with
RegistryIds == 1..(MaxWindows + 2)

\* The registry on its own: inserts and removals of any identity.
NextRegistry ==
    \/ \E id \in RegistryIds : registry_insert(id)
    \/ \E id \in RegistryIds : registry_remove(id)

SpecRegistry == InitRegistry /\ [][NextRegistry]_vars

\* the steps the loop thread takes by itself once they are possible: all of
\* LoopSteps but the dispatch error, which is the transport's doing
LoopProgress ==
    \/ run_start
    \/ create_window
    \/ dispatch_ok
    \/ take
    \/ deliver_new_windows
    \/ deliver_new_screenlocks
    \/ deliver_user_events
    \/ drain_rescale
    \/ drain_resize
    \/ \E asked \in {None} \cup {<<w>> : w \in DOMAIN windows} : user_signals(asked)
    \/ recv_event
    \/ drain_accesskit
    \/ drain_events
    \/ drain_redraw
    \/ drain_close
    \/ boundary

\* The event loop with one window, the application asking for redraws in
\* user_signals_handle, and frame callbacks as the protocol activity that
\* may or may not come.
NextSignals ==
    \/ request_new_window(DefaultAttributes) /\ h_requested = 0
    \/ LoopSteps
    \/ \E id \in DOMAIN windows : frame(id)

\* The loop thread runs whenever it can: a message in a channel wakes the
\* dispatch, and a drain phase is followed by the next.  Nothing obliges the
\* compositor to send anything.
SpecSignals == Init /\ [][NextSignals]_vars /\ WF_vars(LoopProgress)


\* the attributes of the stateless-size specification: the default ones and
\* a requested surface size
SizedAttributes ==
    {DefaultAttributes, [surface_size |-> <<800, 600>>, min_surface_size |-> None]}

\* the configures of the stateless-size specification: server-side
\* decorations, no suggested size or one of two, maximized or not, with or
\* without suggested bounds
StatelessConfigures ==
    { Configure("Server", size, state, bounds) :
        size \in {<<0, 0>>, <<640, 480>>, <<1024, 768>>},
        state \in {{}, {"MAXIMIZED"}},
        bounds \in {None, <<200, 0>>} }

\* The event loop with one window, created with the attributes of
\* SizedAttributes, and the configures of StatelessConfigures.
NextStateless ==
    \/ \E attr \in SizedAttributes : request_new_window(attr) /\ h_requested = 0
    \/ LoopSteps
    \/ \E id \in DOMAIN windows, cfg \in StatelessConfigures : configure(id, cfg, TRUE, 0)

SpecStateless == Init /\ [][NextStateless]_vars

\* raw button codes around the ends of the known range, and the pen eraser
ButtonCodes == {271, 272, 273, 302, 303, 330, 331, 332}

\* The event loop with one window and presses and releases of every code
\* of ButtonCodes on the window and on its decoration.
NextButtons ==
    \/ request_new_window(DefaultAttributes) /\ h_requested = 0
    \/ LoopSteps
    \/ \E id \in DOMAIN windows, deco \in BOOLEAN, kind \in {"Press", "Release"}, button \in ButtonCodes :
          pointer_frame(id, deco, kind, button, PressPosition, FALSE)

SpecButtons == Init /\ [][NextButtons]_vars

\* the logical positions of the touch specification
Positions == {<<3, 5>>, <<4, 7>>}

\* The event loop with one window, a lock surface, a touch device and the
\* notifications of the touch device: a contact goes down on the window, on
\* the lock surface or on a surface that is neither, it moves, changes its
\* shape and orientation and goes up or is cancelled, while the scale factor
\* of the window changes, next to the motion and the press of a mouse.  A
\* contact id goes down when it is not in progress.
NextTouch ==
    \/ request_new_window(DefaultAttributes) /\ h_requested = 0
    \/ LoopSteps
    \/ insert_screenlock(None)
    \/ \E seat \in Seats : new_capability(seat, "Touch", TRUE)
    \/ \E id \in DOMAIN windows : scale_factor_changed(id, MaxScale)
    \/ \E dev \in 1..MaxDevices, id \in DOMAIN windows \cup DOMAIN screenlocks \cup {NullId},
          contact \in 1..MaxContacts, position \in Positions :
          contact \notin DOMAIN touch_state /\ touch_down(dev, id, FALSE, contact, position, FALSE)
    \/ \E dev \in 1..MaxDevices, contact \in 1..MaxContacts : touch_up(dev, contact, FALSE)
    \/ \E dev \in 1..MaxDevices, contact \in 1..MaxContacts, position \in Positions :
          touch_motion(dev, contact, position)
    \/ \E id \in DOMAIN windows, kind \in {"Motion", "Press"}, position \in Positions :
          pointer_frame(id, FALSE, kind, 272, position, FALSE)
    \/ \E contact \in 1..MaxContacts : touch_shape(contact, 2, 1)
    \/ \E contact \in 1..MaxContacts : touch_orientation(contact, 45)
    \/ touch_cancel

SpecTouch == Init /\ [][NextTouch]_vars

\* what one notification of the keyboard may queue: nothing, a key, or a
\* focus change of a window
KeyboardQueued ==
    {<<>>, <<<<"Keyboard", NullId, "key">>>>}
        \cup {<<<<"Focus", w, f>>>> : w \in DOMAIN windows, f \in {"true", "false"}}

\* The event loop with the keyboard of a seat coming and going, the focus
\* moving between the windows, keys, presses of a mouse button, and close
\* requests.
NextKeyboard ==
    \/ request_new_window(DefaultAttributes)
    \/ LoopSteps
    \/ \E seat \in Seats : new_capability(seat, "Keyboard", TRUE)
    \/ \E seat \in Seats : remove_capability(seat, "Keyboard")
    \/ \E focus \in {None} \cup {<<w>> : w \in DOMAIN windows}, queued \in KeyboardQueued :
          keyboard_handler(focus, queued)
    \/ \E id \in DOMAIN windows : pointer_frame(id, FALSE, "Press", 272, PressPosition, FALSE)
    \/ \E id \in DOMAIN windows : request_close(id)

SpecKeyboard == Init /\ [][NextKeyboard]_vars

\* The event loop with the application locking and unlocking the session,
\* the compositor granting the lock, and the application calling run() again
\* after an abort.
NextLock ==
    \/ request_new_window(DefaultAttributes)
    \/ LoopSteps
    \/ screenlock
    \/ unlock
    \/ recv_lock
    \/ session_locked
    \/ run_again
    \/ \E id \in DOMAIN windows : frame(id)
    \/ \E id \in DOMAIN windows : request_close(id)

SpecLock == Init /\ [][NextLock]_vars

\* the sizes a new lock surface is entered with
LockSizes == {None, <<640, 480>>}

\* The event loop with lock surfaces created and removed next to a window.
NextLockSurface ==
    \/ request_new_window(DefaultAttributes)
    \/ LoopSteps
    \/ \E size \in LockSizes : new_lock_surface(size)
    \/ \E id \in DOMAIN screenlocks : remove_screenlock(id)
    \/ \E id \in DOMAIN windows : frame(id)
    \/ \E id \in DOMAIN windows : request_close(id)

SpecLockSurface == Init /\ [][NextLockSurface]_vars

\* outputs of the compositor
MaxOutputs == 2

Outputs == 1..MaxOutputs

\* The event loop with lock surfaces created, removed one by one and removed
\* by output.
NextOutputs ==
    \/ request_new_window(DefaultAttributes)
    \/ LoopSteps
    \/ \E size \in LockSizes : new_lock_surface(size)
    \/ \E id \in DOMAIN screenlocks : remove_screenlock(id)
    \/ \E output \in Outputs : remove_screenlock_by_output_id(output)
    \/ \E id \in DOMAIN windows : frame(id)

SpecOutputs == Init /\ [][NextOutputs]_vars

\* the attributes of the inner-size specification: the default ones, a
\* requested size with no height, and one narrower than the minimum
InnerAttributes ==
    { DefaultAttributes,
      [surface_size |-> <<100, 0>>, min_surface_size |-> None],
      [surface_size |-> <<1, 300>>, min_surface_size |-> None] }

\* the configures of the inner-size specification: no constraint, with the
\* decorations of either side
InnerConfigures == { Configure(mode, <<0, 0>>, {}, None) : mode \in {"Server", "Client"} }

\* the physical sizes the application requests
InnerSizes == {<<0, 0>>, <<401, 300>>}

\* The event loop with one window of given attributes, unconstrained
\* configures, and the application requesting an inner size.
NextInner ==
    \/ \E attr \in InnerAttributes : request_new_window(attr) /\ h_requested = 0
    \/ LoopSteps
    \/ \E id \in DOMAIN windows, cfg \in InnerConfigures, b \in 0..MaxBorder : configure(id, cfg, TRUE, b)
    \/ \E id \in DOMAIN windows : scale_factor_changed(id, MaxScale)
    \/ \E id \in DOMAIN windows, size \in InnerSizes : request_inner_size(id, size)

SpecInner == Init /\ [][NextInner]_vars

\* The event loop whose first dispatch is woken by the user-event channel or
\* by a protocol notification, the application's thread requesting a window
\* while the loop thread is inside a dispatch that has already been woken.
NextFirst ==
    \/ send_event(Len(h_submitted) + 1)
    \/ LoopSteps
    \/ recv_user_event
    \/ \E seat \in Seats, capability \in Capabilities : new_capability(seat, capability, TRUE)
    \/ request_new_window(DefaultAttributes) /\ pc = "dispatch" /\ woken
    \/ \E id \in DOMAIN windows : frame(id)
    \/ \E id \in DOMAIN windows : request_close(id)

SpecFirst == Init /\ [][NextFirst]_vars
\* ------------------------------------------------------------- properties
\* the positions in the current iteration's log of callback `name` for w
Pos(name, w) == {i \in 1..Len(h_tick) : h_tick[i][1] = name /\ h_tick[i][2] = w}

\* TRUE when every position of a is before every position of b
Before(a, b) == \A i \in a, j \in b : i < j

\* the loop thread has executed phase p of the current iteration
Past(p) == pc = "stopped" \/ IndexOf(pc, DrainPhases) > IndexOf(p, DrainPhases)

\* the callbacks about a window other than its creation and its close
WindowCallbacks ==
    {"rescale_handle", "resize_handle", "draw_handle", "keyboard_handle", "pointer_handle",
     "focus_handle", "accesskit_activate_handle", "accesskit_deactivate_handle",
     "accesskit_action_handle"}

\* C1: within one tick the callbacks of a window W come in the order
\* rescale_handle(W), resize_handle(W), draw_handle(W), close_handle(W), and
\* close_handle(W) is the last callback of the tick that concerns W.
C1_TickOrder ==
    \A w \in AllSurfaces :
        /\ Before(Pos("rescale_handle", w), Pos("resize_handle", w))
        /\ Before(Pos("resize_handle", w), Pos("draw_handle", w))
        /\ Before(Pos("rescale_handle", w), Pos("draw_handle", w))
        /\ \A name \in WindowCallbacks : Before(Pos(name, w), Pos("close_handle", w))
        /\ \A j \in Pos("close_handle", w) : \A i \in (j + 1)..Len(h_tick) : h_tick[i][2] # w

\* a tick that rescales, resizes, draws and closes a window, a pointer event
\* of the window dispatched in between
C1_Witness ==
    /\ pc = "boundary"
    /\ \E w \in AllSurfaces :
          /\ Pos("rescale_handle", w) # {}
          /\ Pos("resize_handle", w) # {}
          /\ Pos("pointer_handle", w) # {}
          /\ Pos("draw_handle", w) # {}
          /\ Pos("close_handle", w) # {}

\* C2: after close_handle(W) no draw_handle, resize_handle or rescale_handle
\* for W is invoked in a later tick (such a callback about a closed window is
\* followed by its close_handle in the same tick), and close_handle(W) is
\* invoked once over the run.
C2_ClosedStaysClosed ==
    /\ \A w \in Range(h_closed) : Count(w, h_closed) = 1
    /\ \A i \in 1..Len(h_tick) :
          (h_tick[i][1] \in {"draw_handle", "resize_handle", "rescale_handle"}
             /\ InSeq(h_tick[i][2], h_closed))
          => \E j \in (i + 1)..Len(h_tick) : h_tick[j] = Cb("close_handle", h_tick[i][2], None)

\* a frame callback of a closed window has been drained in a later tick
\* without a draw
C2_Witness ==
    /\ pc = "close"
    /\ \E w \in Range(h_closed) :
          /\ InSeq(w, l_redraw)
          /\ Pos("close_handle", w) = {}
          /\ Pos("draw_handle", w) = {}

\* C3: a scale-factor change received for a present window W is followed, in
\* the tick that drains the dispatch, by rescale_handle(W), then one
\* resize_handle(W), then one draw_handle(W); none of the three is invoked
\* twice for W in a tick.
C3_RescaleResizeDraw ==
    \A w \in AllSurfaces :
        /\ Cardinality(Pos("rescale_handle", w)) <= 1
        /\ Cardinality(Pos("resize_handle", w)) <= 1
        /\ Cardinality(Pos("draw_handle", w)) <= 1
        /\ <<"scale", w, "">> \in h_got =>
              /\ Past("rescale") => Cardinality(Pos("rescale_handle", w)) = 1
              /\ Past("resize") => /\ Cardinality(Pos("resize_handle", w)) = 1
                                   /\ Before(Pos("rescale_handle", w), Pos("resize_handle", w))
              /\ Past("redraw") => /\ Cardinality(Pos("draw_handle", w)) = 1
                                   /\ Before(Pos("resize_handle", w), Pos("draw_handle", w))

\* a scale change, a configure that asks for a resize and a frame callback of
\* one window queued in one dispatch, drained into one callback each
C3_Witness ==
    /\ pc = "boundary"
    /\ \E w \in AllSurfaces :
          /\ <<"scale", w, "">> \in h_got
          /\ <<"frame", w, "">> \in h_got
          /\ \E k \in {"size", "forced"} : <<"cfg", w, k>> \in h_got
          /\ Cardinality(Pos("rescale_handle", w)) = 1
          /\ Cardinality(Pos("resize_handle", w)) = 1
          /\ Cardinality(Pos("draw_handle", w)) = 1

\* the lookups of the rescale, resize and redraw loops fail softly: a
\* callback of these loops is about a window that is in the registry when the
\* loop runs (it is there now, or it is closed later in the tick)
C4_SoftLookups ==
    \A i \in 1..Len(h_tick) :
        h_tick[i][1] \in {"rescale_handle", "resize_handle", "draw_handle"}
        => \/ h_tick[i][2] \in DOMAIN windows
           \/ \E j \in (i + 1)..Len(h_tick) : h_tick[j] = Cb("close_handle", h_tick[i][2], None)

\* the close loop does not abort on an identity that has no window
C4_NoAbortOnAbsent ==
    \A i \in 1..Len(h_tick) : h_tick[i] # Abort(h_tick[i][2], "Failed to remove window")

\* C4: an identity of the rescale, resize, redraw or close set that has no
\* window in the registry when the set is drained is tolerated: the loop does
\* not abort and invokes no rescale, resize or draw callback for it.
C4_AbsentIdentityTolerated == C4_NoAbortOnAbsent /\ C4_SoftLookups

\* C5: at the end of a tick run() stops (and returns Ok) exactly when the
\* registry holds no window and no lock surface or the stop flag is raised;
\* otherwise it starts another dispatch.  It stops nowhere else.
C5_ExitIff ==
    [][ /\ (pc = "boundary" /\ pc' # pc) =>
              /\ (pc' = "stopped" /\ ~running')
                   <=> ((DOMAIN windows = {} /\ DOMAIN screenlocks = {}) \/ ~LOOP_RUNNING)
              /\ pc' # "stopped" => (pc' = "dispatch" /\ running')
        /\ (pc' = "stopped" /\ pc # "stopped") => pc = "boundary"
      ]_vars

\* the last window has been closed and the loop dispatches again, because a
\* lock surface remains
C5_Witness ==
    /\ pc = "dispatch"
    /\ LOOP_RUNNING
    /\ h_closed # <<>>
    /\ DOMAIN windows = {}
    /\ DOMAIN screenlocks # {}

\* C6: when dispatch reports an error run() returns at once: no callback has
\* been invoked in the iteration, the pending sets, the queues, the registry
\* and the channels are as the dispatch left them, and nothing happens later.
C6_DispatchError ==
    [][ /\ (pc' = "error" /\ pc # "error") =>
              /\ pc = "dispatch"
              /\ h_tick' = <<>>
              /\ UNCHANGED <<pending, queues, registry, locals, channels>>
        /\ pc = "error" =>
              /\ pc' = "error"
              /\ UNCHANGED <<h_tick, pending, queues, registry, locals, channels, running>>
      ]_vars

\* run() has returned the error with a redraw and a close pending
C6_Witness ==
    /\ pc = "error"
    /\ h_tick = <<>>
    /\ redraw_request # <<>>
    /\ close_request # <<>>

\* C7: stop() changes the flag and nothing else, and the flag stays raised; a
\* tick in progress runs through its remaining phases whatever the flag (the
\* draw loop draws every present window of its set, the close loop closes
\* every window of its set); the flag is read at the end of the tick, where
\* a raised flag makes run() return without another dispatch.
C7_StopAtBoundary ==
    [][ /\ LOOP_RUNNING' # LOOP_RUNNING =>
              /\ ~LOOP_RUNNING'
              /\ UNCHANGED <<pc, running, registry, pending, locals, channels, queues, h_tick>>
        /\ (pc \in Range(DrainPhases) /\ pc # "boundary" /\ pc' # pc) =>
              pc' \in {PhaseAfter(pc), "panic"}
        /\ (pc = "redraw" /\ pc' # pc) =>
              LET hit == SelectSeq(l_redraw, LAMBDA id : id \in DOMAIN windows)
              IN  h_tick' = h_tick \o [i \in 1..Len(hit) |-> Cb("draw_handle", hit[i], None)]
        /\ (pc = "close" /\ pc' = PhaseAfter(pc)) =>
              \A id \in Range(l_close) :
                  /\ id \notin DOMAIN windows'
                  /\ InSeq(Cb("close_handle", id, None), h_tick')
        /\ (pc = "boundary" /\ pc' # pc /\ ~LOOP_RUNNING) => (pc' = "stopped" /\ ~running')
      ]_vars

\* stop() was called while the rescale loop was about to run; the tick has
\* drawn and closed all the same, and run() has returned with a window left
C7_Witness ==
    /\ pc = "stopped"
    /\ h_stop_at = "rescale"
    /\ DOMAIN windows # {}
    /\ \E i \in 1..Len(h_tick) : h_tick[i][1] = "draw_handle"
    /\ \E i \in 1..Len(h_tick) : h_tick[i][1] = "close_handle"

\* C8: the user events handed to user_events_handle, followed by those
\* queued and those in the channel, are the events submitted, in submission
\* order; the queue is emptied in the user-event step, which comes after the
\* new windows are announced and before the rescale and resize loops.
C8_UserEventsOnceInOrder ==
    /\ h_delivered \o user_events \o user_chan = h_submitted
    /\ Past("user_events") => user_events = <<>>
    /\ \A i \in 1..Len(h_tick) : h_tick[i][1] = "user_events_handle" =>
          \A j \in 1..Len(h_tick) :
              /\ h_tick[j][1] = "create_window" => j < i
              /\ h_tick[j][1] \in WindowCallbacks \cup {"close_handle", "user_signals_handle"} => i < j

\* two events have been delivered in two ticks, the second one between the
\* announcement of a window and its rescale
C8_Witness ==
    /\ Len(h_delivered) = 2
    /\ h_delivered = h_submitted
    /\ \E i, j, k \in 1..Len(h_tick) :
          /\ i < j /\ j < k
          /\ h_tick[i][1] = "create_window"
          /\ h_tick[j] = Cb("user_events_handle", NullId, <<2>>)
          /\ h_tick[k][1] = "rescale_handle"
    /\ \A i \in 1..Len(h_tick) : h_tick[i] # Cb("user_events_handle", NullId, <<1>>)

Kinds(w) == {k \in {"size", "forced", "quiet"} : <<"cfg", w, k>> \in h_got}

\* C10: a configure whose computed size is the current size marks the
\* window for a resize exactly when the old and the new state differ in a bit
\* other than ACTIVATED and SUSPENDED (a window is marked exactly when one of
\* its configures changed the size or such a bit).  A maximize flip at
\* unchanged size yields one resize_handle in the tick; configures that change
\* activated or suspended only yield none.
C10_StateChangeResize ==
    \A w \in DOMAIN windows :
        /\ pc = "dispatch" => (InSeq(w, resize_request) <=> Kinds(w) \cap {"size", "forced"} # {})
        /\ (Past("resize") /\ "forced" \in Kinds(w)) => Cardinality(Pos("resize_handle", w)) = 1
        /\ (Past("resize") /\ Kinds(w) = {"quiet"} /\ <<"scale", w, "">> \notin h_got)
              => Pos("resize_handle", w) = {}

\* a maximize flip at unchanged size, the one notification of its dispatch,
\* has been drained into one resize_handle
C10_Witness ==
    /\ pc = "boundary"
    /\ h_got = {<<"cfg", 1, "forced">>}
    /\ Cardinality(Pos("resize_handle", 1)) = 1

\* configures that change activated or suspended only have been drained
\* without a resize_handle
C10_QuietWitness ==
    /\ pc = "boundary"
    /\ h_got = {<<"cfg", 1, "quiet">>}
    /\ Pos("resize_handle", 1) = {}
    /\ windows[1].state # {}
\* ------------------------------------------------- properties, continued
\* a size is at least another one in width and in height
AtLeast(a, b) == a[1] >= b[1] /\ a[2] >= b[2]

\* C11: after each resize (a step that changes the logical size of a
\* window) the size is at least the window's min_surface_size in width and
\* in height.
C11_SizeAtLeastMin ==
    [][ \A w \in DOMAIN windows \cap DOMAIN windows' :
            windows'[w].size # windows[w].size
            => AtLeast(windows'[w].size, windows'[w].min_surface_size)
      ]_vars

\* the window of h_first has received, as the one configure of the dispatch
\* and with no scale change, a suggested size that is not its initial size,
\* with no state bits
FirstConfigureCase ==
    /\ h_first # None
    /\ h_first[1] \in DOMAIN windows
    /\ h_first[2].state = {}
    /\ h_first[2].new_size[1] # 0 /\ h_first[2].new_size[2] # 0
    /\ h_first[2].new_size # DEFAULT_WINDOW_SIZE
    /\ <<"scale", h_first[1], "">> \notin h_got

\* what the tick delivers for the window of h_first: one resize_handle with
\* `size`, one draw_handle and no rescale_handle
FirstConfigureDelivers(size) ==
    /\ Past("resize") => Pos("resize_handle", h_first[1]) # {}
    /\ \A i \in Pos("resize_handle", h_first[1]) :
          /\ h_tick[i][3] = size
          /\ \A j \in Pos("resize_handle", h_first[1]) : j = i
    /\ Past("redraw") => Cardinality(Pos("draw_handle", h_first[1])) = 1
    /\ Pos("rescale_handle", h_first[1]) = {}

\* the suggested size of h_first less the borders of a visible frame, a
\* dimension the borders use up being 1
LessBorders(new_size, b) ==
    <<new_size[1], IF new_size[2] > b THEN new_size[2] - b ELSE 1>>

C12_FrameWitness ==
    /\ pc = "boundary"
    /\ FirstConfigureCase
    /\ h_first[2].new_size = <<800, 600>>
    /\ windows[h_first[1]].window_frame
    /\ InSeq(Cb("resize_handle", h_first[1], <<800, 599>>), h_tick)

C19_NoAttemptAfterFailure ==
    \A i \in 1..Len(h_attempts) : h_attempts[i] = "failed" => i = Len(h_attempts)

\* the number of Cancel events for window w in a channel or queue
Cancels(q, w) == Cardinality({i \in 1..Len(q) : q[i] = <<"Pointer", w, "Cancel">>})

\* C14: when the pointer or touch capability of a seat that had a device is
\* removed, one pointer Cancel event is enqueued for every window of the
\* registry and the device is unregistered from the pointer registry.
C14_CancelOnRemoval ==
    [][ \A s \in DOMAIN by_seat \ DOMAIN by_seat' :
            /\ by_seat[s][1] \notin DOMAIN by_pointer'
            /\ \A w \in DOMAIN windows : Cancels(event_chan', w) = Cancels(event_chan, w) + 1
      ]_vars

\* C13: draw_handle is invoked at most once for a window in a tick, however
\* many redraw requests for it were queued before the tick drains.
C13_DrawAtMostOnce ==
    \A w \in AllSurfaces \cup DOMAIN screenlocks : Cardinality(Pos("draw_handle", w)) <= 1

\* a frame callback and two configures of one window, the first of them
\* folding a resize into the redraw set, have been drained into one
\* draw_handle
C13_Witness ==
    /\ pc = "boundary"
    /\ \E w \in DOMAIN windows :
          /\ {<<"frame", w, "">>, <<"cfg", w, "forced">>, <<"cfg", w, "quiet">>} \subseteq h_got
          /\ Cardinality(Pos("resize_handle", w)) = 1
          /\ Cardinality(Pos("draw_handle", w)) = 1

\* C15: a button press or a touch-down on a decoration sub-surface of a
\* window W enqueues no pointer event for the application; it leaves the
\* windows, the channels and the other pending sets as they are and adds at
\* most W to the close set and to the redraw set.
C15_DecorationPress ==
    [][ \A w \in DOMAIN windows, close \in BOOLEAN :
            ( \/ \E button \in Buttons : pointer_frame(w, TRUE, "Press", button, PressPosition, close)
              \/ \E dev \in 1..MaxDevices, contact \in 1..MaxContacts :
                    touch_down(dev, w, TRUE, contact, PressPosition, close) )
            => /\ events' = events
               /\ UNCHANGED <<windows, channels, rescale_request, resize_request>>
               /\ Range(close_request') \subseteq Range(close_request) \cup {w}
               /\ Range(redraw_request') \subseteq Range(redraw_request) \cup {w}
      ]_vars

\* a touch on the close button of the decoration has put the window in the
\* close set, and nothing in the event queue
C15_Witness ==
    /\ pc = "dispatch"
    /\ events = <<>>
    /\ \E c \in DOMAIN touch_state :
          /\ touch_state[c].frame_touch
          /\ windows[touch_state[c].window_id].window_frame
          /\ InSeq(touch_state[c].window_id, close_request)

\* a press on the close button of the decoration, no touch in progress and
\* no close request of the compositor
C15_PressWitness ==
    /\ pc = "dispatch"
    /\ events = <<>>
    /\ touch_state = <<>>
    /\ \E w \in DOMAIN windows : windows[w].window_frame /\ InSeq(w, close_request)

\* C16: insert_window(id, w) aborts exactly when id is a key of the window
\* map and otherwise adds the entry; remove_window(id) aborts exactly when
\* id is no key and otherwise removes the entry and returns the identity of
\* the removed window, which is id.
C16_InsertRemove ==
    [][ (pc = "registry" /\ h_tick' # h_tick) =>
           LET op == h_tick'[Len(h_tick')]
               others == {x \in DOMAIN windows : x # op[2]}
           IN  /\ \A x \in others : x \in DOMAIN windows' /\ windows'[x] = windows[x]
               /\ DOMAIN windows' \subseteq DOMAIN windows \cup {op[2]}
               /\ op[1] = "insert_window" =>
                     /\ op[2] \notin DOMAIN windows
                     /\ op[2] \in DOMAIN windows'
                     /\ pc' = "registry"
               /\ op[1] = "remove_window" =>
                     /\ op[2] \in DOMAIN windows
                     /\ op[2] \notin DOMAIN windows'
                     /\ op[3] = <<op[2]>>
                     /\ pc' = "registry"
               /\ op[1] = "panic" =>
                     /\ pc' = "panic"
                     /\ op[3] = <<"Failed to add window with the existing id">> => op[2] \in DOMAIN windows
                     /\ op[3] = <<"Failed to remove window">> => op[2] \notin DOMAIN windows
      ]_vars

\* a window has been inserted and removed, and a second removal of its
\* identity has aborted
C16_Witness ==
    /\ pc = "panic"
    /\ h_tick = << Cb("insert_window", 1, None), Cb("remove_window", 1, <<1>>),
                  Abort(1, "Failed to remove window") >>

\* an insert of an identity that is a key has aborted
C16_InsertWitness ==
    /\ pc = "panic"
    /\ h_tick = << Cb("insert_window", 1, None), Abort(1, "Failed to add window with the existing id") >>

\* C17: when an internal event about a present window W (a redraw
\* request, a keyboard event to the focused W, a pointer event or a focus
\* change) has been drained in the event step of a tick, draw_handle(W) is
\* invoked in the redraw step of that tick.  After the event step the
\* registry's redraw set holds what the redraw requests and the keyboard
\* events of the tick asked for.
C17_EventRedrawSameTick ==
    \A w \in DOMAIN windows :
        ( /\ pc \in {"close", "boundary"}
          /\ \/ InSeq(w, redraw_request)
             \/ \E name \in {"keyboard_handle", "pointer_handle", "focus_handle"} : Pos(name, w) # {} )
        => Pos("draw_handle", w) # {}

\* C18: a redraw the application asks of a window with
\* WaylandWindow::redraw_request() leads to draw_handle for that window,
\* unless the window is closed or run() returns, with no protocol or channel
\* activity other than the request's own message.
C18_RedrawRequestLeadsToDraw ==
    \A w \in 1..MaxWindows :
        InSeq(<<"RedrawRequest", w, "">>, event_chan)
        ~> \/ Pos("draw_handle", w) # {}
           \/ w \notin DOMAIN windows
           \/ pc \in {"stopped", "error", "panic"}

\* the identities in the four pending sets of the registry
PendingIds ==
    Range(rescale_request) \cup Range(resize_request) \cup Range(redraw_request)
        \cup Range(close_request)

C20_PendingAreKeysOrForeign ==
    pc = "dispatch" =>
        \A id \in PendingIds \ {NullId} :
            id \in DOMAIN windows \/ id \in DOMAIN screenlocks \/ InSeq(id, h_closed)

\* C21: a configure for a window W leaves W in the redraw set; W is in the
\* resize set afterwards exactly when it was there before or the configure
\* triggered a resize (the computed size differs from the current one, or a
\* state bit other than activated and suspended changed). The other pending
\* sets are left alone.
C21_ConfigureMarks ==
    [][ \A id \in DOMAIN windows, cfg \in SizeConfigures, frame_ok \in BOOLEAN, b \in 0..MaxBorder :
            configure(id, cfg, frame_ok, b) /\ pc' # "panic"
            => /\ InSeq(id, redraw_request')
               /\ InSeq(id, resize_request')
                    <=> ( \/ InSeq(id, resize_request)
                          \/ ConfigureKind(windows[id], cfg, frame_ok, b) \in {"size", "forced"} )
               /\ Range(resize_request') \subseteq Range(resize_request) \cup {id}
               /\ Range(redraw_request') = Range(redraw_request) \cup {id}
               /\ UNCHANGED <<rescale_request, close_request>>
      ]_vars

\* the one configure of the dispatch triggered a resize by a state bit, the
\* size unchanged: the window is in the resize set and in the redraw set
C21_Witness ==
    /\ pc = "dispatch"
    /\ h_got = {<<"cfg", 1, "forced">>}
    /\ InSeq(1, resize_request)
    /\ InSeq(1, redraw_request)

\* the one configure of the dispatch triggered no resize: the window is in
\* the redraw set only
C21_QuietWitness ==
    /\ pc = "dispatch"
    /\ h_got = {<<"cfg", 1, "quiet">>}
    /\ ~InSeq(1, resize_request)
    /\ InSeq(1, redraw_request)

\* the remembered stateless size changes only through a resize performed
\* while the window is stateless, and a configure with no suggested size and
\* no bounds that is not stateless leaves the size as it is
C22_StatelessSizeByResize ==
    [][ /\ \A w \in DOMAIN windows \cap DOMAIN windows' :
              windows'[w].stateless_size # windows[w].stateless_size
              => /\ windows'[w].stateless
                 /\ windows'[w].stateless_size = windows'[w].size
        /\ \A id \in DOMAIN windows, cfg \in StatelessConfigures :
              ( /\ configure(id, cfg, TRUE, 0)
                /\ cfg.new_size = <<0, 0>> /\ cfg.suggested_bounds = None
                /\ ~is_stateless(cfg) )
              => windows'[id].size = windows[id].size
      ]_vars

\* C22: the remembered stateless size changes only through a resize
\* performed while the window is stateless; a window that had size S when it
\* last had no maximized, fullscreen or tiled bit and is maximized at another
\* size returns to S on a configure with none of those bits, no suggested
\* size and no bounds; a configure with no suggested size (and no bounds)
\* while not stateless leaves the size unchanged.
C22_ReturnsToStatelessSize ==
    [][ /\ \A w \in DOMAIN windows \cap DOMAIN windows' :
              windows'[w].stateless_size # windows[w].stateless_size
              => /\ windows'[w].stateless
                 /\ windows'[w].stateless_size = windows'[w].size
        /\ \A id \in DOMAIN windows, cfg \in StatelessConfigures :
              ( /\ configure(id, cfg, TRUE, 0)
                /\ cfg.new_size = <<0, 0>> /\ cfg.suggested_bounds = None )
              => IF is_stateless(cfg)
                 THEN "MAXIMIZED" \in windows[id].state /\ windows[id].size # h_last[id]
                      => windows'[id].size = h_last[id]
                 ELSE windows'[id].size = windows[id].size
      ]_vars

\* C23: after a configure that requests server-side decorations the window
\* holds no decoration frame, and a window comes to hold a frame only in a
\* configure that requests client-side decorations: a window whose most
\* recent configure requested server-side decorations holds no frame.
C23_ServerModeNoFrame ==
    [][ /\ \A id \in DOMAIN windows, cfg \in SizeConfigures, frame_ok \in BOOLEAN, b \in 0..MaxBorder :
              configure(id, cfg, frame_ok, b) /\ cfg.decoration_mode = "Server"
              => ~windows'[id].window_frame
        /\ \A w \in DOMAIN windows' :
              windows'[w].window_frame /\ (w \in DOMAIN windows => ~windows[w].window_frame)
              => /\ w \in DOMAIN windows
                 /\ \E cfg \in SizeConfigures, b \in 0..MaxBorder :
                       cfg.decoration_mode = "Client" /\ configure(w, cfg, TRUE, b)
      ]_vars

\* a decoration frame was constructed for the window and a later configure
\* with server-side decorations has dropped it
C23_Witness ==
    /\ pc = "dispatch"
    /\ 1 \in DOMAIN windows
    /\ InSeq("ok", h_attempts)
    /\ ~windows[1].window_frame

\* C24: the stored scale factor of every window is at least 1; a scale
\* change for a window of the registry stores the new factor and puts the
\* window in the rescale set, and a scale change for an unknown surface
\* changes neither the windows nor a pending set.
C24_ScaleFactor ==
    [][ /\ \A w \in DOMAIN windows' : windows'[w].scale_factor >= 1
        /\ \A id \in DOMAIN windows \cup {NullId}, f \in Scales :
              scale_factor_changed(id, f)
              => IF id \in DOMAIN windows
                 THEN /\ windows' = [windows EXCEPT ![id].scale_factor = f]
                      /\ InSeq(id, rescale_request')
                      /\ Range(rescale_request') = Range(rescale_request) \cup {id}
                      /\ UNCHANGED <<resize_request, redraw_request, close_request>>
                 ELSE UNCHANGED <<windows, pending>>
      ]_vars

\* between ticks a window stores a scale factor other than the default and
\* is in the rescale set
C24_Witness ==
    /\ pc = "dispatch"
    /\ \E w \in DOMAIN windows :
          /\ windows[w].scale_factor = MaxScale
          /\ InSeq(w, rescale_request)

\* the raw button codes of the known set: 0x110..0x12e and 0x14b
KnownCodes == 272..302 \cup {331}

\* C25: a press or a release on a window surface whose raw button code is
\* outside the known set enqueues no pointer event and does not abort; a
\* code of the known set enqueues one event that carries one button.
C25_UnknownButtonNoEvent ==
    [][ \A w \in DOMAIN windows, kind \in {"Press", "Release"}, button \in ButtonCodes :
            pointer_frame(w, FALSE, kind, button, PressPosition, FALSE)
            => /\ pc' # "panic"
               /\ IF button \in KnownCodes
                  THEN /\ Len(events') = Len(events) + 1
                       /\ events'[Len(events')][4].button # None
                  ELSE events' = events
      ]_vars

\* a press or a release on a window surface does not abort and enqueues one
\* event; the event of a code of the known set carries one button, a code
\* maps to one button and two codes to two buttons, and the event of a code
\* outside the set carries no button
C25_ButtonOfCode ==
    [][ \A w \in DOMAIN windows, kind \in {"Press", "Release"}, button \in ButtonCodes :
            pointer_frame(w, FALSE, kind, button, PressPosition, FALSE)
            => /\ pc' # "panic"
               /\ events' = Append(events, events'[Len(events')])
               /\ LET e == events'[Len(events')]
                  IN  /\ e[1] = "Pointer" /\ e[2] = w /\ e[3] = kind
                      /\ (e[4].button # None) <=> button \in KnownCodes
                      /\ \A other \in KnownCodes \ {button} :
                            try_from_button(other) # None /\ try_from_button(other) # e[4].button
      ]_vars

\* a logical position in the physical units of window w, at the scale
\* factor the window has now
Scaled(position, w) ==
    <<position[1] * windows[w].scale_factor, position[2] * windows[w].scale_factor>>

\* the event a handler has just put in the internal queue
Queued == events'[Len(events')]

\* C26: the position in a pointer motion or press and in a touch down or
\* motion event is the received logical position multiplied by the scale
\* factor the target window has when the event is received, also when the
\* scale factor has changed since the contact went down.
C26_PositionsScaled ==
    [][ /\ \A w \in DOMAIN windows, kind \in {"Motion", "Press"}, position \in Positions :
              pointer_frame(w, FALSE, kind, 272, position, FALSE)
              => Queued[4].position = Scaled(position, w)
        /\ \A dev \in DOMAIN by_pointer, w \in DOMAIN windows, contact \in 1..MaxContacts,
              position \in Positions :
              touch_down(dev, w, FALSE, contact, position, FALSE)
              => Queued[4].position = Scaled(position, w)
        /\ \A dev \in DOMAIN by_pointer, contact \in DOMAIN touch_state, position \in Positions :
              touch_motion(dev, contact, position) /\ touch_state[contact].window_id \in DOMAIN windows
              => Queued[4].position = Scaled(position, touch_state[contact].window_id)
      ]_vars

\* the same for the mouse and for the touch-down only
C26_ReceivedAtCurrentScale ==
    [][ /\ \A w \in DOMAIN windows, kind \in {"Motion", "Press"}, position \in Positions :
              pointer_frame(w, FALSE, kind, 272, position, FALSE)
              => Queued[4].position = Scaled(position, w)
        /\ \A dev \in DOMAIN by_pointer, w \in DOMAIN windows, contact \in 1..MaxContacts,
              position \in Positions :
              touch_down(dev, w, FALSE, contact, position, FALSE)
              => Queued[4].position = Scaled(position, w)
      ]_vars

\* the state of the engine apart from the position of the loop thread and
\* from what tells whether the dispatch has something to drain
EngineState == <<registry, pending, locals, channels, queues, seats, decor>>

\* C27: a contact enters the per-contact table in a touch-down of a
\* registered device on a window or lock surface, and in no other step; it
\* leaves the table in its touch-up or in a touch-cancel, and in no other
\* step.  A touch up, motion, shape or orientation for a contact without an
\* entry enqueues no event, changes no state and does not abort, and a
\* touch-down on a surface that is neither a window nor a lock surface
\* creates no entry.
C27_ContactEntries ==
    [][ /\ \A c \in 1..MaxContacts :
              /\ c \in DOMAIN touch_state' \ DOMAIN touch_state
                 => \E dev \in DOMAIN by_pointer, id \in DOMAIN windows \cup DOMAIN screenlocks,
                       position \in Positions : touch_down(dev, id, FALSE, c, position, FALSE)
              /\ c \in DOMAIN touch_state \ DOMAIN touch_state'
                 => touch_cancel \/ \E dev \in 1..MaxDevices : touch_up(dev, c, FALSE)
        /\ \A dev \in DOMAIN by_pointer, id \in DOMAIN windows \cup DOMAIN screenlocks,
              c \in 1..MaxContacts, position \in Positions :
              touch_down(dev, id, FALSE, c, position, FALSE)
              => c \in DOMAIN touch_state' /\ touch_state'[c].window_id = id
        /\ \A dev \in 1..MaxDevices, c \in DOMAIN touch_state :
              touch_up(dev, c, FALSE) => c \notin DOMAIN touch_state'
        /\ touch_cancel => DOMAIN touch_state' = {}
        /\ \A dev \in 1..MaxDevices, c \in (1..MaxContacts) \ DOMAIN touch_state, position \in Positions :
              ( \/ touch_up(dev, c, FALSE)
                \/ touch_motion(dev, c, position)
                \/ touch_shape(c, 2, 1)
                \/ touch_orientation(c, 45) )
              => UNCHANGED EngineState /\ UNCHANGED <<pc, h_tick>>
        /\ \A dev \in 1..MaxDevices, c \in 1..MaxContacts, position \in Positions :
              touch_down(dev, NullId, FALSE, c, position, FALSE)
              => UNCHANGED EngineState /\ UNCHANGED <<pc, h_tick>>
      ]_vars

\* between ticks one contact is in the table, down on a window, and
\* another one has gone up: its Down and its Up are in the internal queue
C27_Witness ==
    /\ pc = "dispatch"
    /\ \E c \in DOMAIN touch_state, d \in (1..MaxContacts) \ DOMAIN touch_state :
          /\ touch_state[c].window_id \in DOMAIN windows
          /\ \E i, j \in 1..Len(events) :
                /\ i < j
                /\ events[i][3] = "Down" /\ events[i][4].contact = <<d>>
                /\ events[j][3] = "Up" /\ events[j][4].contact = <<d>>

\* a contact is in the table, down on a lock surface
C27_LockWitness ==
    /\ pc = "dispatch"
    /\ \E c \in DOMAIN touch_state : touch_state[c].window_id \in DOMAIN screenlocks

\* the Cancel events for contact c addressed to window w among the events
\* from position `from` on
TouchCancelsFor(q, from, c, w) ==
    {i \in from..Len(q) : q[i][1] = "Pointer" /\ q[i][2] = w /\ q[i][3] = "Cancel"
                           /\ Len(q[i]) = 4 /\ q[i][4].contact = <<c>>}

\* C28: a touch-cancel empties the per-contact table and enqueues exactly
\* one pointer Cancel event for every contact that was in it, addressed to
\* the window of the contact, and nothing else; a touch-up or a motion for a
\* contact that is not in the table, as all are after the cancel, enqueues
\* no event.
C28_TouchCancel ==
    [][ /\ touch_cancel
           => /\ touch_state' = <<>>
              /\ SubSeq(events', 1, Len(events)) = events
              /\ Len(events') = Len(events) + Cardinality(DOMAIN touch_state)
              /\ \A c \in DOMAIN touch_state :
                    Cardinality(TouchCancelsFor(events', Len(events) + 1, c,
                                                touch_state[c].window_id)) = 1
        /\ \A dev \in 1..MaxDevices, c \in (1..MaxContacts) \ DOMAIN touch_state, position \in Positions :
              touch_up(dev, c, FALSE) \/ touch_motion(dev, c, position)
              => events' = events
      ]_vars

\* two contacts have been cancelled: the table is empty and the internal
\* queue holds the Cancel of each after their two Downs
C28_Witness ==
    /\ pc = "dispatch"
    /\ touch_state = <<>>
    /\ Len(events) = 4
    /\ \A c \in 1..2 : \E w \in DOMAIN windows : TouchCancelsFor(events, 3, c, w) # {}

\* the callbacks of the accessibility events
AccesskitCallbacks ==
    {"accesskit_activate_handle", "accesskit_deactivate_handle", "accesskit_action_handle"}

\* the callbacks due for a queue of accessibility events, front first: one
\* for every event whose window is in the registry
RECURSIVE AccesskitCalls(_)
AccesskitCalls(q) ==
    IF q = <<>> THEN <<>>
    ELSE LET kind == Head(q)[1]
             id == Head(q)[2]
             name == CASE kind = "AccessabilityActivate" -> "accesskit_activate_handle"
                       [] kind = "AccessibilityDeactivate" -> "accesskit_deactivate_handle"
                       [] kind = "Action" -> "accesskit_action_handle"
         IN  (IF id \in DOMAIN windows THEN <<Cb(name, id, None)>> ELSE <<>>)
                \o AccesskitCalls(Tail(q))

\* C29: an accessibility event received from the channel goes to the back
\* of the queue; the accessibility step empties the queue and invokes, front
\* first, the callback of every queued event whose window is in the registry
\* and no callback for the others; within a tick these callbacks come after
\* user_signals_handle and before the callbacks of the internal events, the
\* draws and the closes.
C29_AccesskitOrder ==
    [][ /\ recv_accesskit_event
           => accesskit_events' = Append(accesskit_events, Head(accesskit_chan))
        /\ drain_accesskit
           => /\ accesskit_events' = <<>>
              /\ h_tick' = h_tick \o AccesskitCalls(accesskit_events)
        /\ ~drain_accesskit
           => \A name \in AccesskitCallbacks, w \in AllSurfaces :
                 Pos(name, w)' = Pos(name, w) \/ h_tick' = <<>>
        /\ \A i, j \in 1..Len(h_tick') :
              h_tick'[i][1] \in AccesskitCallbacks
              => /\ h_tick'[j][1] = "user_signals_handle" => j < i
                 /\ h_tick'[j][1] \in {"keyboard_handle", "pointer_handle", "focus_handle",
                                       "draw_handle", "close_handle"} => i < j
      ]_vars

\* in one tick two accessibility events of different kinds have been
\* dispatched in the order they were sent, after user_signals_handle and
\* before the draw
C29_Witness ==
    \E i, j, k, l \in 1..Len(h_tick) :
        /\ i < j /\ j < k /\ k < l
        /\ h_tick[i][1] = "user_signals_handle"
        /\ h_tick[j][1] = "accesskit_action_handle"
        /\ h_tick[k][1] = "accesskit_activate_handle"
        /\ h_tick[l][1] = "draw_handle"

\* the accessibility step is about to drop an event: its window has been
\* closed
C29_DropWitness ==
    /\ pc = "accesskit"
    /\ \E i \in 1..Len(accesskit_events) :
          /\ accesskit_events[i][2] \notin DOMAIN windows
          /\ InSeq(accesskit_events[i][2], h_closed)

\* the callbacks due for the internal events of a queue, front first: for a
\* keyboard event keyboard_handle of the window that has the focus, none
\* when no window has it; for a pointer event and a focus change the
\* callback of the window named in the event; none for a redraw request
RECURSIVE EventCalls(_)
EventCalls(q) ==
    IF q = <<>> THEN <<>>
    ELSE LET e == Head(q)
             calls == CASE e[1] = "Keyboard" ->
                              IF keyboard_focus = None THEN <<>>
                              ELSE <<Cb("keyboard_handle", keyboard_focus[1], None)>>
                        [] e[1] = "Pointer" -> <<Cb("pointer_handle", e[2], None)>>
                        [] e[1] = "Focus" -> <<Cb("focus_handle", e[2], None)>>
                        [] e[1] = "RedrawRequest" -> <<>>
         IN  calls \o EventCalls(Tail(q))

\* C30: the step over the internal events invokes keyboard_handle for a
\* keyboard event only with the window that has the keyboard focus, and does
\* not invoke it when no window has the focus; it invokes pointer_handle and
\* focus_handle with the window named in the event.  No other step invokes
\* keyboard_handle.
C30_KeyboardToFocus ==
    [][ /\ drain_events
           => /\ h_tick' = h_tick \o EventCalls(events)
              /\ keyboard_focus' = keyboard_focus
        /\ ~drain_events
           => \A w \in AllSurfaces \cup {NullId} :
                 Pos("keyboard_handle", w)' = Pos("keyboard_handle", w) \/ h_tick' = <<>>
      ]_vars

\* a key has been handed to the window that has the focus, after the press
\* of a mouse button on the other window
C30_Witness ==
    /\ keyboard_focus # None
    /\ \E w \in DOMAIN windows \ {keyboard_focus[1]}, i, j \in 1..Len(h_tick) :
          /\ i < j
          /\ h_tick[i] = Cb("pointer_handle", w, None)
          /\ h_tick[j] = Cb("keyboard_handle", keyboard_focus[1], None)

\* the step over the internal events is about to drop a key: no window has
\* the focus
C30_DropWitness ==
    /\ pc = "events"
    /\ keyboard_focus = None
    /\ \E i \in 1..Len(events) : events[i][1] = "Keyboard"

\* C31: when the loop thread reaches the end of a tick the internal event
\* queue and the accessibility event queue are both empty; the read of the
\* pending collections at the start of the tick hands their content to the
\* tick and leaves every one of them empty, and from there to the end of the
\* tick the rescale, resize and close sets and the new windows stay empty, so
\* that what was read is not read again by a later tick.
C31_QueuesConsumed ==
    [][ /\ pc' = "boundary" => events' = <<>> /\ accesskit_events' = <<>>
        /\ take =>
              /\ <<l_new_windows', l_locked', l_rescale', l_resize', l_redraw', l_close'>>
                    = <<new_windows, new_screenlock, rescale_request, resize_request,
                        redraw_request, close_request>>
              /\ new_windows' = <<>> /\ new_screenlock' = <<>>
              /\ rescale_request' = <<>> /\ resize_request' = <<>>
              /\ redraw_request' = <<>> /\ close_request' = <<>>
        /\ (pc' \in Range(DrainPhases) /\ pc' # "take") =>
              /\ new_windows' = <<>> /\ rescale_request' = <<>>
              /\ resize_request' = <<>> /\ close_request' = <<>>
      ]_vars

\* the end of a tick that handled two internal events and an accessibility
\* event
C31_Witness ==
    /\ pc = "boundary"
    /\ \E w \in DOMAIN windows : Cardinality(Pos("pointer_handle", w)) >= 2
    /\ \E i \in 1..Len(h_tick) : h_tick[i][1] \in AccesskitCallbacks

\* C32 (the floor): the stored minimum size of every window is at least
\* MIN_WINDOW_SIZE in width and in height, and a call of
\* set_min_surface_size stores the requested minimum, floored, with the
\* border of the frame added when the window has a frame that is shown.
C32_MinAtLeastFloor ==
    [][ /\ \A w \in DOMAIN windows' :
              /\ windows'[w].min_surface_size[1] >= MIN_WINDOW_SIZE[1]
              /\ windows'[w].min_surface_size[2] >= MIN_WINDOW_SIZE[2]
        /\ \A id \in DOMAIN windows, size \in MinSizes, b \in 0..MaxBorder :
              set_min_surface_size(id, size, b) =>
                 LET floored == min_surface_size_of(size, FALSE, FALSE, 0)
                 IN  windows'[id].min_surface_size =
                        IF windows[id].window_frame
                        THEN <<floored[1], floored[2] + (IF windows[id].decorate THEN b ELSE 0)>>
                        ELSE floored
      ]_vars

\* C32: a configure that constructs the decoration frame of a window leaves
\* the window with its minimum size, which was stored without a frame,
\* expanded by the border of the new frame.
C32_MinExpandedByFrame ==
    [][ \A id \in DOMAIN windows, cfg \in SizeConfigures, b \in 0..MaxBorder :
           ( /\ configure(id, cfg, TRUE, b)
             /\ ~windows[id].window_frame
             /\ windows'[id].window_frame )
           => windows'[id].min_surface_size =
                 add_borders(~windows[id].decorate, windows[id].min_surface_size[1],
                             windows[id].min_surface_size[2], b)
      ]_vars

\* the application has set a minimum size on a window that has a frame
C32_Witness ==
    \E w \in DOMAIN windows :
       /\ windows[w].window_frame
       /\ windows[w].min_surface_size = <<300, 300 + MaxBorder>>

C33_ReleaseNeedsFlag ==
    [][ /\ session_lock' # session_lock /\ session_lock' = "None"
           => pc = "boundary" /\ session_lock = "Locked" /\ SCREENLOCK
        /\ (pc = "boundary" /\ pc' # pc /\ session_lock = "Locked" /\ ~SCREENLOCK)
           => session_lock' = "Locked"
        /\ (unlock /\ ~SCREENLOCK) => UNCHANGED vars
      ]_vars

\* the end of a tick has kept the session lock, the flag having been cleared
C33_KeptWitness ==
    /\ session_lock = "Locked"
    /\ ~SCREENLOCK
    /\ pc = "dispatch"
    /\ h_tick = <<>>
    /\ ~woken
    /\ DOMAIN windows # {}
    /\ h_created # <<>>

\* the lock surfaces of a new_screenlock map whose size is None
Unsized(map) == {map[i][1] : i \in {j \in 1..Len(map) : map[j][2] = None}}

C34_SizedAnnouncedOnce ==
    [][ /\ (deliver_new_screenlocks /\ Unsized(l_locked) = {}) =>
              /\ pc' # "panic"
              /\ h_tick' = h_tick \o [i \in 1..Len(l_locked) |->
                                        Cb("create_screenlock", l_locked[i][1], l_locked[i][2])]
              /\ new_screenlock' = new_screenlock
        /\ ~deliver_new_screenlocks =>
              \A id \in DOMAIN screenlocks \cup DOMAIN screenlocks' :
                 Pos("create_screenlock", id)' = Pos("create_screenlock", id) \/ h_tick' = <<>>
      ]_vars

\* a lock surface with a size has been announced to the application
C34_Witness ==
    \E id \in DOMAIN screenlocks : Pos("create_screenlock", id) # {}

\* the identities entered in a new_screenlock map
Entered(map) == {map[i][1] : i \in 1..Len(map)}

\* C35: remove_screenlock_by_output_id(o) takes out of the lock-surface map
\* exactly the lock surfaces of output o; each of them is either taken out
\* of new_screenlock or inserted into close_request; when no lock surface is
\* on o, the maps and close_request stay as they are.
C35_RemovesByOutput ==
    [][ \A o \in Outputs :
           remove_screenlock_by_output_id(o) =>
              LET on_o == {id \in DOMAIN screenlocks : output_id(id) = o}
              IN  /\ DOMAIN screenlocks' = DOMAIN screenlocks \ on_o
                  /\ \A id \in on_o :
                        IF id \in Entered(new_screenlock)
                        THEN id \notin Entered(new_screenlock') /\ close_request' = close_request
                        ELSE InSeq(id, close_request')
                  /\ on_o = {} => /\ screenlocks' = screenlocks
                                  /\ new_screenlock' = new_screenlock
                                  /\ close_request' = close_request
      ]_vars

\* C35 (one lock surface): remove_screenlock(id) takes id out of the
\* lock-surface map and leaves the others; id is taken out of new_screenlock
\* when it is entered there, and inserted into close_request otherwise.
C35_RemoveScreenlock ==
    [][ \A id \in DOMAIN screenlocks :
           remove_screenlock(id) =>
              /\ DOMAIN screenlocks' = DOMAIN screenlocks \ {id}
              /\ IF id \in Entered(new_screenlock)
                 THEN /\ Entered(new_screenlock') = Entered(new_screenlock) \ {id}
                      /\ close_request' = close_request
                 ELSE /\ new_screenlock' = new_screenlock
                      /\ close_request' = IndexSetInsert(close_request, id)
      ]_vars

\* a lock surface that had been announced has been removed: it is in
\* close_request
C35_Witness ==
    \E id \in Range(close_request) : id < 0 /\ id \notin DOMAIN screenlocks

\* C36: by_pointer holds an entry for a device exactly when by_seat maps the
\* seat of that entry to the device.
C36_MapsConsistent ==
    /\ \A p \in DOMAIN by_pointer :
          /\ by_pointer[p][1] \in DOMAIN by_seat
          /\ by_seat[by_pointer[p][1]][1] = p
    /\ \A seat \in DOMAIN by_seat :
          /\ by_seat[seat][1] \in DOMAIN by_pointer
          /\ by_pointer[by_seat[seat][1]][1] = seat

\* C36 (from seat to device): the device by_seat gives for a seat has its
\* entry in by_pointer, with that seat and the kind of the device.
C36_SeatDeviceRegistered ==
    \A seat \in DOMAIN by_seat :
       /\ by_seat[seat][1] \in DOMAIN by_pointer
       /\ by_pointer[by_seat[seat][1]] = <<seat, by_seat[seat][2]>>

\* a seat has its device registered in both maps
C36_Witness ==
    \E seat \in DOMAIN by_seat : DOMAIN by_pointer = {by_seat[seat][1]}

\* the callbacks that hand input or a focus change to the application
InputCallbacks == {"keyboard_handle", "pointer_handle", "focus_handle"}

\* C37: a keyboard_handle, pointer_handle or focus_handle logged in a tick
\* for a window whose close_handle has been invoked is followed, in that
\* tick, by that close_handle: none is invoked in a tick after the close.
C37_NoInputAfterClose ==
    \A i \in 1..Len(h_tick) :
       (h_tick[i][1] \in InputCallbacks /\ InSeq(h_tick[i][2], h_closed))
          => \E j \in (i + 1)..Len(h_tick) : h_tick[j] = Cb("close_handle", h_tick[i][2], None)

\* C37 (accessibility): an accessibility callback logged in a tick for a
\* window whose close_handle has been invoked is followed, in that tick, by
\* that close_handle.
C37_NoAccesskitAfterClose ==
    \A i \in 1..Len(h_tick) :
       (h_tick[i][1] \in AccesskitCallbacks /\ InSeq(h_tick[i][2], h_closed))
          => \E j \in (i + 1)..Len(h_tick) : h_tick[j] = Cb("close_handle", h_tick[i][2], None)

\* C38: the size of every window is at least 1 in width and in height.
C38_SizeAtLeastOne ==
    \A w \in DOMAIN windows : windows[w].size[1] >= 1 /\ windows[w].size[2] >= 1

\* C38 (what request_inner_size does): a window that is not stateless keeps
\* its size; a stateless one takes the requested size converted to logical
\* with its scale factor, whatever that size is.
C38_InnerSizeWhenStateless ==
    [][ \A id \in DOMAIN windows, size \in InnerSizes :
           request_inner_size(id, size) =>
              IF windows[id].stateless
              THEN windows'[id].size = to_logical(size, windows[id].scale_factor)
              ELSE windows' = windows
      ]_vars

\* a stateless window at scale factor 2 has taken a requested inner size
C38_Witness ==
    \E w \in DOMAIN windows :
       /\ windows[w].stateless
       /\ windows[w].scale_factor = 2
       /\ windows[w].size = <<201, 150>>

\* the configure that suggests no size, carries no state bit and no bounds
FreeConfigure == Configure("Server", <<0, 0>>, {}, None)

\* C39: a window that is as WaylandWindow::new made it, with the requested
\* size of its attributes, has that size after a configure that suggests no
\* size and carries no state bit and no bounds.
C39_InitialSizeKept ==
    [][ \A id \in DOMAIN windows, attr \in SizedAttributes :
           ( /\ configure(id, FreeConfigure, TRUE, 0)
             /\ windows[id] = WithCore(id, WaylandWindow_new(attr)) )
           => windows'[id].size = windows[id].size
      ]_vars

\* C39 (the default size): the same for a window created with the default
\* attributes, and for any new window the size after that configure is
\* DEFAULT_WINDOW_SIZE.
C39_FirstConfigureGivesDefault ==
    [][ \A id \in DOMAIN windows, attr \in SizedAttributes :
           ( /\ configure(id, FreeConfigure, TRUE, 0)
             /\ windows[id] = WithCore(id, WaylandWindow_new(attr)) )
           => /\ windows'[id].size = DEFAULT_WINDOW_SIZE
              /\ attr = DefaultAttributes => windows'[id].size = windows[id].size
      ]_vars

\* a window created with the default attributes has had a configure that
\* suggests nothing as its first one and has been told no resize
C39_Witness ==
    \E w \in DOMAIN windows :
       /\ <<"cfg", w, "quiet">> \in h_got
       /\ windows[w].stateless
       /\ windows[w].size = DEFAULT_WINDOW_SIZE
       /\ resize_request = <<>>

\* C40: when run() has returned Ok without stop() having been called, every
\* window requested while the loop was running has been announced with
\* create_window: the loop has not left with a request still on the creation
\* channel and no window created.
C40_NoExitBeforeFirstWindow ==
    (pc = "stopped" /\ LOOP_RUNNING /\ h_requested > 0) => h_created # <<>>

\* C40 (a dispatch that receives the request): a window created by a
\* dispatch is announced with create_window in the tick that follows it,
\* before the end of that tick looks at the registry.
C40_CreatedIsAnnounced ==
    (pc \in {"boundary", "stopped"} /\ next_id > 1) => Len(h_created) = next_id - 1

\* the loop has left after the last window was closed, every requested
\* window having been announced
C40_Witness ==
    /\ pc = "stopped"
    /\ LOOP_RUNNING
    /\ h_requested > 0
    /\ Len(h_created) = h_requested
    /\ h_closed # <<>>

====
